---- MODULE Spec2Model ----
(***************************************************************************)
(* Identity tracking and consolidation of dyadic-storytelling's            *)
(* feature-extraction scripts:                                             *)
(*   scripts/extract-pose.py      match_keypoints, IdBuffer,               *)
(*                                process_vid_json, main                   *)
(*   scripts/consolidate-pose.py  process_file                             *)
(*   scripts/consolidate-face.py  get_error, match_faces                   *)
(*   local/pose.py                get_rmse, get_center_of_mass,            *)
(*                                get_first_ordered_pair                   *)
(*   local/util.py                UidProvider                              *)
(*                                                                         *)
(* Numbers.  Coordinates are integers (pixels), confidences are integer    *)
(* percents (0.20 is 20).  A Python float that a cost can take is a record *)
(* [inf, bad, fin]: +infinity, or bad * 1e30 + fin / 10.  Adding anything  *)
(* in pixel range to n * 1e30 gives n * 1e30 back in IEEE-754 double       *)
(* arithmetic (half an ulp of 1e30 is about 7e13), so FAdd drops the       *)
(* finite part as soon as one term is BAD_MATCH_RMSE.                      *)
(***************************************************************************)
EXTENDS Integers, Sequences, FiniteSets, TLC

VARIABLES
    \* ---- extract-pose.py
    pc,          \* position of main: "main" (between videos) or "loop" (in process_vid_json's frame loop)
    vid,         \* number of videos started so far in this run
    uids,        \* uid_provider.uids: every identity issued, in order of issue
    file_idx,    \* frames of the video consumed so far
    skeletons,   \* the last entry of process_vid_json.skeletons, the only one the loop
                 \* reads again (as skeletons[file_idx - 1])
    n_rows,      \* skeletons entered in process_vid_json.data so far
    buffer,      \* id_buffer.buffer
    last,        \* history of the last loop iteration: whether the permutation loop ran
                 \* and its best_permutation, the identities of the previous frame
                 \* (old_ids) and of this frame before id_buffer.update (ids),
                 \* uid_provider.uids and id_buffer.buffer before the iteration, and the
                 \* number of frames in a row, up to the one before (absent_before) and
                 \* up to this one (absent), that lacked an identity of the buffer
    failed_vids, \* video_logger.failed_vids: <<video, reason>> records
    written,     \* videos whose skeleton-data.csv was written
    \* ---- the matchers applied to drawn inputs
    m_kind, m_previous, m_current, m_weight, m_out,
    \* ---- consolidate-pose.py process_file
    cp_pc, data, leftmost_id, rightmost_id, id_map, assigned, output, cp_frame, cp_error,
    \* ---- consolidate-pose.py main
    entry,        \* entries of `for (pair_id, round, skeleton_file) in entries` begun so far
    video_logger, \* FailedVidLogger: the rows of the CSV at csv_path and failed_vids
    out_csv,      \* entries whose out_csv was written by processed.to_csv in this run
    \* ---- consolidate-face.py process_faces
    cf_pc,         \* "start", "loop", "done" (the table is returned) or "failed"
    skeleton_data, \* skeleton_data[f + 1]: child_id -> joints of frame f
    face_data,     \* face_data[f + 1]: face_id -> row of frame f, before the success filter
    face_std,      \* max(face_std_x, face_std_y), in pixels
    children,      \* <<left_child, right_child>>
    cf_anchor,     \* <<left_face_anchor, right_face_anchor>>
    cf_output,     \* output
    cf_frame,      \* frame of `for frame in trange(max_frame)`
    cf_last,       \* history of the last loop iteration: its frame, the skeleton_anchors
                   \* built in it, whether match_faces was called, and its result
    cf_error       \* repr of the exception that ended process_faces

trackVars == <<pc, vid, uids, file_idx, skeletons, n_rows, buffer, last, failed_vids, written>>
matchVars == <<m_kind, m_previous, m_current, m_weight, m_out>>
poseVars  == <<cp_pc, data, leftmost_id, rightmost_id, id_map, assigned, output, cp_frame, cp_error>>
batchVars == <<entry, video_logger, out_csv>>
faceVars  == <<cf_pc, skeleton_data, face_data, face_std, children, cf_anchor, cf_output,
               cf_frame, cf_last, cf_error>>
vars == <<pc, vid, uids, file_idx, skeletons, n_rows, buffer, last, failed_vids, written,
          m_kind, m_previous, m_current, m_weight, m_out,
          cp_pc, data, leftmost_id, rightmost_id, id_map, assigned, output, cp_frame, cp_error,
          entry, video_logger, out_csv,
          cf_pc, skeleton_data, face_data, face_std, children, cf_anchor, cf_output,
          cf_frame, cf_last, cf_error>>

-----------------------------------------------------------------------------
(* Bounds of the model *)

\* frames (JSON files) of one video
MaxFrames == 4
\* videos of one run
MaxVideos == 2
\* UidProvider.MAX_UID (0xFFFFFFFF in the source), scaled down
MaxUid == 3
\* entries of each side handed to a matcher in SpecMatch
MaxMatch == 3
\* frames of the table handed to process_file in SpecPose
MaxRows == 3

-----------------------------------------------------------------------------
(* Sequences *)

Range(s) == {s[i] : i \in 1..Len(s)}

Min2(a, b) == IF a < b THEN a ELSE b

RECURSIVE SumSet(_, _)
SumSet(S, f) ==
    IF S = {} THEN 0
    ELSE LET e == CHOOSE x \in S : TRUE IN f[e] + SumSet(S \ {e}, f)

\* all sequences over S of length 0..n
RECURSIVE SeqsUpTo(_, _)
SeqsUpTo(S, n) ==
    IF n = 0 THEN {<<>>}
    ELSE LET shorter == SeqsUpTo(S, n - 1)
         IN shorter \cup {Append(s, x) : s \in {t \in shorter : Len(t) = n - 1}, x \in S}

\* s without its i-th element
RemoveAt(s, i) == SubSeq(s, 1, i - 1) \o SubSeq(s, i + 1, Len(s))

\* floor of the square root, by bisection on lo <= r < hi
RECURSIVE IsqrtIter(_, _, _)
IsqrtIter(n, lo, hi) ==
    IF hi - lo <= 1 THEN lo
    ELSE LET mid == (lo + hi) \div 2
         IN IF mid * mid <= n THEN IsqrtIter(n, mid, hi) ELSE IsqrtIter(n, lo, mid)

Isqrt(n) == IsqrtIter(n, 0, Min2(n, 46340) + 1)

-----------------------------------------------------------------------------
(* Floats *)

Float(b, f) == [inf |-> FALSE, bad |-> b, fin |-> f]
FZero == Float(0, 0)
FInf  == [inf |-> TRUE, bad |-> 0, fin |-> 0]

\* a + b as Python computes it (neither operand infinite)
FAdd(a, b) ==
    LET b2 == a.bad + b.bad
    IN Float(b2, IF b2 > 0 THEN 0 ELSE a.fin + b.fin)

\* a + b over the reals
ExactAdd(a, b) == Float(a.bad + b.bad, a.fin + b.fin)

\* a < b
FLess(a, b) ==
    IF a.inf THEN FALSE
    ELSE IF b.inf THEN TRUE
    ELSE \/ a.bad < b.bad
         \/ a.bad = b.bad /\ a.fin < b.fin

FLeq(a, b) == ~FLess(b, a)

-----------------------------------------------------------------------------
(* local/pose.py *)

\* six of the 25 joints of the source: every function modelled here treats all
\* joints alike
JOINTS == << "nose", "neck", "right_eye", "left_eye", "right_ear", "left_ear" >>

JointSet == Range(JOINTS)

Keypoint(x, y, confidence) == [x |-> x, y |-> y, confidence |-> confidence]

\* Skeleton.id before an identity is assigned
None == -1

Skeleton(joints, id) == [joints |-> joints, id |-> id]

MIN_CONFIDENCE == 20

BAD_MATCH_RMSE == Float(1, 0)

\* the joints get_rmse does not skip
Eligible(first, second) ==
    {j \in JointSet : ~(\/ first.joints[j].confidence < MIN_CONFIDENCE
                        \/ second.joints[j].confidence < MIN_CONFIDENCE)}

square_error(first, second) ==
    [j \in JointSet |->
        (first.joints[j].x - second.joints[j].x) * (first.joints[j].x - second.joints[j].x)
      + (first.joints[j].y - second.joints[j].y) * (first.joints[j].y - second.joints[j].y)]

\* a get_rmse that takes the root of the sum and skips a joint whose confidence
\* is not above MIN_CONFIDENCE
get_rmse_sum(first, second) ==
    LET used == {j \in JointSet : /\ first.joints[j].confidence > MIN_CONFIDENCE
                                  /\ second.joints[j].confidence > MIN_CONFIDENCE}
    IN IF used = {} THEN BAD_MATCH_RMSE
       ELSE Float(0, Isqrt(100 * SumSet(used, square_error(first, second))))

\* math.sqrt(sum_errors / count), in tenths of a pixel, rounded down
get_rmse(first, second) ==
    LET used       == Eligible(first, second)
        count      == Cardinality(used)
        sum_errors == SumSet(used, square_error(first, second))
    IN IF count < 1 THEN BAD_MATCH_RMSE
       ELSE Float(0, Isqrt((100 * sum_errors) \div count))

\* get_center_of_mass: the mean position of the joints whose confidence is above
\* MIN_CONFIDENCE, kept as sums and a count (x is sum_x / count); nan when no joint
\* qualifies.  The confidence is the mean over ALL joints, kept as sum_confidence.
get_center_of_mass(joints) ==
    LET used == {j \in JointSet : joints[j].confidence > MIN_CONFIDENCE}
    IN IF used = {}
       THEN [nan |-> TRUE, sum_x |-> 0, sum_y |-> 0, count |-> 1, sum_confidence |-> 0]
       ELSE [nan            |-> FALSE,
             sum_x          |-> SumSet(used, [j \in JointSet |-> joints[j].x]),
             sum_y          |-> SumSet(used, [j \in JointSet |-> joints[j].y]),
             count          |-> Cardinality(used),
             sum_confidence |-> SumSet(JointSet, [j \in JointSet |-> joints[j].confidence])]

\* a.x < b.x for two centers of mass; a comparison with NaN is False
XLess(a, b) == ~a.nan /\ ~b.nan /\ a.sum_x * b.count < b.sum_x * a.count

\* the frames listed in a table: d[f + 1] maps the person_ids of frame f to their
\* joints, and a frame without skeletons has no rows
frames_of(d) == {f \in 0..(Len(d) - 1) : DOMAIN d[f + 1] # {}}

Max(S) == CHOOSE x \in S : \A y \in S : y <= x
Min(S) == CHOOSE x \in S : \A y \in S : x <= y

\* .unique() of a sorted index level
RECURSIVE SortedSeq(_)
SortedSeq(S) == IF S = {} THEN <<>> ELSE <<Min(S)>> \o SortedSeq(S \ {Min(S)})

\* min(min_cm, key=...) and max(min_cm, key=...): the first entry no later entry
\* beats; i is the next entry to look at, best the index held so far
RECURSIVE py_min(_, _, _)
py_min(cm, i, best) ==
    IF i > Len(cm) THEN best
    ELSE py_min(cm, i + 1, IF XLess(cm[i], cm[best]) THEN i ELSE best)

RECURSIVE py_max(_, _, _)
py_max(cm, i, best) ==
    IF i > Len(cm) THEN best
    ELSE py_max(cm, i + 1, IF XLess(cm[best], cm[i]) THEN i ELSE best)

NoPair == [ok |-> FALSE, leftmost_id |-> None, rightmost_id |-> None]

\* the leftmost and rightmost ids of frame f, taken without any assertion
ordered_pair_unchecked(d, f) ==
    LET min_ids   == SortedSeq(DOMAIN d[f + 1])
        min_cm    == [i \in 1..Len(min_ids) |-> get_center_of_mass(d[f + 1][min_ids[i]])]
    IN [ok |-> TRUE,
        leftmost_id  |-> min_ids[py_min(min_cm, 2, 1)],
        rightmost_id |-> min_ids[py_max(min_cm, 2, 1)]]

\* the leftmost and rightmost ids of frame f, and whether the four assertions hold
ordered_pair_at(d, f) ==
    LET min_ids   == SortedSeq(DOMAIN d[f + 1])
        min_cm    == [i \in 1..Len(min_ids) |-> get_center_of_mass(d[f + 1][min_ids[i]])]
        leftmost  == py_min(min_cm, 2, 1)
        rightmost == py_max(min_cm, 2, 1)
    IN [ok |-> /\ min_ids[leftmost] # min_ids[rightmost]
               /\ XLess(min_cm[leftmost], min_cm[rightmost])
               /\ min_cm[leftmost].sum_confidence > 0
               /\ min_cm[rightmost].sum_confidence > 0,
        leftmost_id  |-> min_ids[leftmost],
        rightmost_id |-> min_ids[rightmost]]

\* the pair read off the last frame with more than one skeleton
get_last_ordered_pair(d) ==
    LET multi == {f \in frames_of(d) : Cardinality(DOMAIN d[f + 1]) > 1}
    IN IF multi = {} THEN NoPair ELSE ordered_pair_at(d, Max(multi))

\* get_first_ordered_pair: ok is FALSE when an assertion fails
get_first_ordered_pair(d) ==
    LET multi == {f \in frames_of(d) : Cardinality(DOMAIN d[f + 1]) > 1}
    IN IF multi = {} THEN NoPair ELSE ordered_pair_at(d, Min(multi))

-----------------------------------------------------------------------------
(* local/util.py UidProvider *)

\* a test that lets every draw pass
uid_is_any(us, id) == TRUE

\* `id not in self.uids`
uid_is_new(us, id) == id \notin Range(us)

\* get_uid returns id: a draw of random.randint(0, MAX_UID) that passes the test
\* (with every value issued the `while True` loop never ends: no id qualifies)
get_uid(us, id) == id \in 0..MaxUid /\ uid_is_new(us, id)

\* ids are the values of successive get_uid calls on a provider holding us
RECURSIVE get_uids(_, _)
get_uids(us, ids) ==
    IF ids = <<>> THEN TRUE
    ELSE get_uid(us, Head(ids)) /\ get_uids(Append(us, Head(ids)), Tail(ids))

-----------------------------------------------------------------------------
(* scripts/extract-pose.py match_keypoints *)

\* itertools.product(items, repeat=r): r-tuples that may use an item twice
RECURSIVE product(_, _)
product(items, r) ==
    IF r = 0 THEN << <<>> >>
    ELSE LET rest == product(items, r - 1)
         IN [k \in 1..(Len(items) * Len(rest)) |->
                <<items[((k - 1) \div Len(rest)) + 1]>> \o rest[((k - 1) % Len(rest)) + 1]]

\* itertools.permutations(items, r): the r-tuples in the order they are generated
RECURSIVE permutations(_, _)
RECURSIVE PermutationsFrom(_, _, _)
PermutationsFrom(items, r, i) ==
    IF i > Len(items) THEN <<>>
    ELSE LET rest == permutations(RemoveAt(items, i), r - 1)
         IN [k \in 1..Len(rest) |-> <<items[i]>> \o rest[k]] \o PermutationsFrom(items, r, i + 1)

permutations(items, r) ==
    IF r = 0 THEN << <<>> >>
    ELSE IF r > Len(items) THEN <<>>
    ELSE PermutationsFrom(items, r, 1)

\* range(n_current), padded with -1 up to n_previous entries
new_indices(n_previous, n_current) ==
    [i \in 1..(IF n_previous > n_current THEN n_previous ELSE n_current) |->
        IF i <= n_current THEN i - 1 ELSE -1]

\* old_idx => new_idx => RMSE
rmse_lookup(previous, current) ==
    [old \in 1..Len(previous) |-> [new \in 1..Len(current) |-> get_rmse(previous[old], current[new])]]

\* the loop `rmse += lookup[old_idx][new_idx]` over the first k entries
RECURSIVE permutation_cost(_, _, _)
permutation_cost(lookup, permutation, k) ==
    IF k = 0 THEN FZero
    ELSE LET before == permutation_cost(lookup, permutation, k - 1)
         IN IF permutation[k] >= 0
            THEN FAdd(before, lookup[k][permutation[k] + 1])
            ELSE before

\* the same sum over the reals
RECURSIVE exact_cost(_, _, _)
exact_cost(lookup, permutation, k) ==
    IF k = 0 THEN FZero
    ELSE LET before == exact_cost(lookup, permutation, k - 1)
         IN IF permutation[k] >= 0
            THEN ExactAdd(before, lookup[k][permutation[k] + 1])
            ELSE before

NoBest == [best_permutation |-> <<>>, found |-> FALSE, best_rmse |-> FInf, second_rmse |-> FInf]

\* a pass that also takes a permutation whose rmse equals the best one
keypoint_step_last(st, permutation, rmse) ==
    IF FLeq(rmse, st.best_rmse)
    THEN [best_permutation |-> permutation, found |-> TRUE,
          best_rmse |-> rmse, second_rmse |-> st.best_rmse]
    ELSE IF FLess(rmse, st.second_rmse)
    THEN [st EXCEPT !.second_rmse = rmse]
    ELSE st

\* one pass of `for permutation in matching_permutations`
keypoint_step(st, permutation, rmse) ==
    IF FLess(rmse, st.best_rmse)
    THEN [best_permutation |-> permutation, found |-> TRUE,
          best_rmse |-> rmse, second_rmse |-> st.best_rmse]
    ELSE IF FLess(rmse, st.second_rmse)
    THEN [st EXCEPT !.second_rmse = rmse]
    ELSE st

RECURSIVE keypoint_loop(_, _, _, _)
keypoint_loop(lookup, perms, i, st) ==
    IF i > Len(perms) THEN st
    ELSE keypoint_loop(lookup, perms, i + 1,
            keypoint_step(st, perms[i], permutation_cost(lookup, perms[i], Len(perms[i]))))

\* the identity current[n] carries after `current[new_idx].id = previous[old_idx].id`
\* ran over the permutation (n counts from 1, new_idx from 0)
copied_id(previous, current, permutation, n) ==
    LET olds == {old \in 1..Len(permutation) : permutation[old] = n - 1}
    IN IF olds = {} THEN current[n].id
       ELSE previous[CHOOSE old \in olds : \A o \in olds : o <= old].id

\* the value of `score`: math.nan, or second_rmse / best_rmse kept as its two
\* operands, or none when the division by 0.0 raises
NanScore == [kind |-> "nan", second |-> FZero, best |-> FZero]
salience(st) ==
    IF st.best_rmse = FZero THEN [kind |-> "raised", second |-> st.second_rmse, best |-> FZero]
    ELSE IF st.best_rmse.inf /\ st.second_rmse.inf THEN NanScore
    ELSE [kind |-> "value", second |-> st.second_rmse, best |-> st.best_rmse]

\* match_keypoints up to the allocation of new identities:
\*   returned - the early return of an empty current
\*   raised   - `second_rmse / best_rmse` divides by 0.0 (ZeroDivisionError)
\*   ids      - the identity of each current skeleton, None where none was copied
\*   score    - the salience score
match_assign(previous, current) ==
    IF Len(current) = 0
    THEN [returned |-> TRUE, raised |-> FALSE, ran |-> FALSE, loop |-> NoBest,
          ids |-> <<>>, score |-> NanScore, lookup |-> <<>>]
    ELSE IF Len(previous) = 0
    THEN [returned |-> FALSE, raised |-> FALSE, ran |-> FALSE, loop |-> NoBest,
          ids |-> [n \in 1..Len(current) |-> current[n].id], score |-> NanScore,
          lookup |-> <<>>]
    ELSE LET lookup == rmse_lookup(previous, current)
             perms  == permutations(new_indices(Len(previous), Len(current)), Len(previous))
             st     == keypoint_loop(lookup, perms, 1, NoBest)
         IN [returned |-> FALSE,
             raised   |-> st.best_rmse = FZero,
             ran      |-> TRUE,
             loop     |-> st,
             ids      |-> IF st.found
                          THEN [n \in 1..Len(current) |->
                                   copied_id(previous, current, st.best_permutation, n)]
                          ELSE [n \in 1..Len(current) |-> current[n].id],
             score    |-> salience(st),
             lookup   |-> lookup]

\* `if new_skelly.id is None: new_skelly.id = uid_provider.get_uid()`, fresh holding
\* the values get_uid returned, in order
RECURSIVE fill_ids(_, _)
fill_ids(ids, fresh) ==
    IF ids = <<>> THEN <<>>
    ELSE IF Head(ids) = None
    THEN <<Head(fresh)>> \o fill_ids(Tail(ids), Tail(fresh))
    ELSE <<Head(ids)>> \o fill_ids(Tail(ids), fresh)

NoneCount(ids) == Cardinality({n \in 1..Len(ids) : ids[n] = None})

-----------------------------------------------------------------------------
(* scripts/consolidate-face.py get_error and match_faces *)

\* an entry of skeleton_anchors or face_anchors: (id, anchor)
Anchor(id, keypoint) == [id |-> id, anchor |-> keypoint]

\* a cost that grows with the confidence of the face
get_error_trusting(skeleton_anchor, face_anchor, uncertainty_weight) ==
    LET dx == skeleton_anchor.x - face_anchor.x
        dy == skeleton_anchor.y - face_anchor.y
    IN Isqrt(10000 * (dx * dx + dy * dy)) + uncertainty_weight * face_anchor.confidence

\* distance + uncertainty_weight * (1 - confidence), in hundredths of a pixel;
\* uncertainty_weight is in pixels, the confidence in percent
get_error(skeleton_anchor, face_anchor, uncertainty_weight) ==
    LET dx          == skeleton_anchor.x - face_anchor.x
        dy          == skeleton_anchor.y - face_anchor.y
        distance    == Isqrt(10000 * (dx * dx + dy * dy))
        uncertainty == 100 - face_anchor.confidence
    IN distance + uncertainty_weight * uncertainty

\* skelly => face => error
error_lookup(skeleton_anchors, face_anchors, uncertainty_weight) ==
    [s \in 1..Len(skeleton_anchors) |->
        [f \in 1..Len(face_anchors) |->
            get_error(skeleton_anchors[s].anchor, face_anchors[f].anchor, uncertainty_weight)]]

\* range(len(face_anchors)), padded with -1 up to len(skeleton_anchors) entries
face_indices(n_skeletons, n_faces) ==
    [i \in 1..(IF n_skeletons > n_faces THEN n_skeletons ELSE n_faces) |->
        IF i <= n_faces THEN i - 1 ELSE -1]

\* the loop `error += lookup[skelly_idx][face_idx]` over the first k entries
RECURSIVE permutation_error(_, _, _)
permutation_error(lookup, permutation, k) ==
    IF k = 0 THEN 0
    ELSE permutation_error(lookup, permutation, k - 1)
         + (IF permutation[k] >= 0 THEN lookup[k][permutation[k] + 1] ELSE 0)

\* best_permutation = None, best_error = np.inf
NoBestFace == [best_permutation |-> <<>>, found |-> FALSE, best_error |-> 0]

\* `if error < best_error`, every error being below np.inf
face_step(st, permutation, error) ==
    IF ~st.found \/ error < st.best_error
    THEN [best_permutation |-> permutation, found |-> TRUE, best_error |-> error]
    ELSE st

RECURSIVE face_loop(_, _, _, _)
face_loop(lookup, perms, i, st) ==
    IF i > Len(perms) THEN st
    ELSE face_loop(lookup, perms, i + 1,
            face_step(st, perms[i], permutation_error(lookup, perms[i], Len(perms[i]))))

\* the dict `output[skelly_id] = face_id` filled in the order of skelly_idx
face_output(skeleton_anchors, face_anchors, permutation) ==
    LET matched == {s \in 1..Len(permutation) : permutation[s] >= 0}
    IN [id \in {skeleton_anchors[s].id : s \in matched} |->
          LET s == CHOOSE t \in matched :
                      /\ skeleton_anchors[t].id = id
                      /\ \A u \in matched : skeleton_anchors[u].id = id => u <= t
          IN face_anchors[permutation[s] + 1].id]

match_faces(skeleton_anchors, face_anchors, uncertainty_weight) ==
    IF Len(skeleton_anchors) = 0 \/ Len(face_anchors) = 0
    THEN [ran |-> FALSE, loop |-> NoBestFace, output |-> <<>>, lookup |-> <<>>]
    ELSE LET lookup == error_lookup(skeleton_anchors, face_anchors, uncertainty_weight)
             perms  == permutations(face_indices(Len(skeleton_anchors), Len(face_anchors)),
                                    Len(skeleton_anchors))
             st     == face_loop(lookup, perms, 1, NoBestFace)
         IN [ran |-> TRUE, loop |-> st,
             output |-> IF st.found
                        THEN face_output(skeleton_anchors, face_anchors, st.best_permutation)
                        ELSE <<>>,
             lookup |-> lookup]

-----------------------------------------------------------------------------
(* scripts/extract-pose.py IdBuffer *)

\* an update without the early return: a frame that brings no new identity
\* replaces the buffer as well
IdBuffer_update_replacing(buf, ids) ==
    LET new_ids == Range(ids)
        lost    == buf \ new_ids
        gained  == new_ids \ buf
    IN IF Cardinality(buf) > 1 /\ Cardinality(lost) = 1 /\ Cardinality(gained) = 1
       THEN LET lost_id   == CHOOSE x \in lost : TRUE
                gained_id == CHOOSE x \in gained : TRUE
            IN [buffer |-> buf,
                ids |-> [n \in 1..Len(ids) |-> IF ids[n] = gained_id THEN lost_id ELSE ids[n]]]
       ELSE [buffer |-> new_ids, ids |-> ids]

\* an update that relabels the new skeleton with an identity the frame still holds
IdBuffer_update_kept(buf, ids) ==
    LET new_ids == Range(ids)
        lost    == buf \ new_ids
        gained  == new_ids \ buf
    IN IF Cardinality(gained) = 0
       THEN [buffer |-> buf, ids |-> ids]
       ELSE IF Cardinality(buf) > 1 /\ Cardinality(lost) = 1 /\ Cardinality(gained) = 1
       THEN LET kept_id   == CHOOSE x \in buf \cap new_ids : TRUE
                gained_id == CHOOSE x \in gained : TRUE
            IN [buffer |-> buf,
                ids |-> [n \in 1..Len(ids) |-> IF ids[n] = gained_id THEN kept_id ELSE ids[n]]]
       ELSE [buffer |-> new_ids, ids |-> ids]

\* an update without the relabelling branch
IdBuffer_update_plain(buf, ids) ==
    IF Range(ids) \ buf = {}
    THEN [buffer |-> buf, ids |-> ids]
    ELSE [buffer |-> Range(ids), ids |-> ids]

\* IdBuffer.update on a buffer and the identities of the frame's skeletons:
\* the buffer and the identities afterwards
IdBuffer_update(buf, ids) ==
    LET new_ids == Range(ids)
        lost    == buf \ new_ids
        gained  == new_ids \ buf
    IN IF Cardinality(gained) = 0
       THEN [buffer |-> buf, ids |-> ids]
       ELSE IF Cardinality(buf) > 1 /\ Cardinality(lost) = 1 /\ Cardinality(gained) = 1
       THEN LET lost_id   == CHOOSE x \in lost : TRUE
                gained_id == CHOOSE x \in gained : TRUE
                skelly    == CHOOSE n \in 1..Len(ids) :
                                /\ ids[n] = gained_id
                                /\ \A k \in 1..(n - 1) : ids[k] # gained_id
            IN [buffer |-> buf, ids |-> [ids EXCEPT ![skelly] = lost_id]]
       ELSE [buffer |-> new_ids, ids |-> ids]

-----------------------------------------------------------------------------
(* Inputs *)

\* a skeleton seen at (x, 0): the joints of js detected with confidence 1.0, the
\* others reported as OpenPose reports an undetected joint, (0, 0, 0)
Pose(x, js) ==
    [j \in JointSet |-> IF j \in js THEN Keypoint(x, 0, 100) ELSE Keypoint(0, 0, 0)]

Upper == {"nose", "neck"}

\* what OpenPose may report for one person of a tracked video
TrackPoses == {Pose(x, Upper) : x \in {100, 300, 500}}

\* --number_people_max 2
number_people_max == 2

\* the "people" arrays a frame's JSON file may hold
FrameInputs == SeqsUpTo(TrackPoses, number_people_max)

\* one entry of a "people" array: a dict holding 3 * len(JOINTS) numbers under
\* "pose_keypoints_2d" ("ok"), or something consume_person_data rejects
Shapes == {"ok", "not_dict", "no_field", "wrong_length"}

RawPerson(shape, pose) == [shape |-> shape, pose |-> pose]

\* the "people" arrays as they are read from the JSON file of a frame: the well
\* formed ones, and arrays with a malformed entry alone or after a good one
RawFrames ==
    {[n \in 1..Len(f) |-> RawPerson("ok", f[n])] : f \in FrameInputs}
    \cup {<<RawPerson(s, Pose(0, {}))>> : s \in Shapes \ {"ok"}}
    \cup {<<RawPerson("ok", Pose(100, Upper)), RawPerson("wrong_length", Pose(0, {}))>>}

\* a skeleton seen aslant: the nose at (400, 0) with a confidence of exactly
\* MIN_CONFIDENCE, the neck at (100, 400)
AslantPose ==
    [j \in JointSet |-> IF j = "nose" THEN Keypoint(400, 0, MIN_CONFIDENCE)
                        ELSE IF j = "neck" THEN Keypoint(100, 400, 100)
                        ELSE Keypoint(0, 0, 0)]

\* skeletons a matcher may be handed: one with the neck only, one with nose and
\* neck, two with the nose only, one aslant.  The first shares no joint with the
\* nose-only ones.
MatchPoses ==
    {Pose(100, {"neck"}), Pose(100, Upper), Pose(100, {"nose"}), Pose(500, {"nose"}), AslantPose}

\* previous holds the identities of the frame before, current none yet
MatchPrevious ==
    {[n \in 1..Len(s) |-> Skeleton(s[n], n - 1)] : s \in SeqsUpTo(MatchPoses, MaxMatch)}
MatchCurrent ==
    {[n \in 1..Len(s) |-> Skeleton(s[n], None)] : s \in SeqsUpTo(MatchPoses, MaxMatch)}

\* (id, anchor) lists: skeleton anchors carry child ids, face anchors face ids
SkeletonAnchorPoints == {Keypoint(100, 0, 100), Keypoint(300, 0, 60)}
FaceAnchorPoints == {Keypoint(100, 0, 100), Keypoint(300, 0, 100), Keypoint(300, 0, 50)}
SkeletonAnchors ==
    {[n \in 1..Len(s) |-> Anchor(10 + n, s[n])] : s \in SeqsUpTo(SkeletonAnchorPoints, MaxMatch)}
FaceAnchors ==
    {[n \in 1..Len(s) |-> Anchor(n - 1, s[n])] : s \in SeqsUpTo(FaceAnchorPoints, MaxMatch)}

\* values of face_std, in pixels
Weights == {0, 3}

\* skeletons of a table handed to process_file: one around x = 200 (nose at 100,
\* neck at 300), one at x = 500, and one without a detected joint
TablePoses ==
    {[j \in JointSet |-> IF j = "nose" THEN Keypoint(100, 0, 100)
                         ELSE IF j = "neck" THEN Keypoint(300, 0, 100)
                         ELSE Keypoint(0, 0, 0)],
     Pose(500, Upper),
     Pose(0, {})}

\* person_ids of a table
PersonIds == {1, 2, 3}

-----------------------------------------------------------------------------
(* Idle values of the variables a specification does not use *)

NoLast == [ran |-> FALSE, best_permutation |-> <<>>, old_ids |-> <<>>, ids |-> <<>>,
           uids_before |-> <<>>, buffer_before |-> {}, absent_before |-> 0, absent |-> 0]

TrackIdle ==
    /\ pc = "off" /\ vid = 0 /\ uids = <<>> /\ file_idx = 0 /\ skeletons = <<>>
    /\ n_rows = 0 /\ buffer = {}
    /\ last = NoLast /\ failed_vids = <<>> /\ written = {}

MatchIdle ==
    /\ m_kind = "off" /\ m_previous = <<>> /\ m_current = <<>> /\ m_weight = 0
    /\ m_out = <<>>

\* the automatic ids written under each role in one loop iteration: none yet
NoneAssigned == [left |-> {}, right |-> {}]

PoseIdle ==
    /\ cp_pc = "off" /\ data = <<>> /\ leftmost_id = None /\ rightmost_id = None
    /\ id_map = [left |-> {}, right |-> {}] /\ assigned = NoneAssigned
    /\ output = <<>> /\ cp_frame = 0 /\ cp_error = ""

NoLogger == [csv |-> <<>>, failed_vids |-> <<>>]

BatchIdle ==
    /\ entry = 0 /\ video_logger = NoLogger /\ out_csv = {}

NoLastFace == [frame |-> -1, skeleton_anchors |-> <<>>, face_anchors |-> <<>>,
               called |-> FALSE, matching |-> <<>>]

FaceIdle ==
    /\ cf_pc = "off" /\ skeleton_data = <<>> /\ face_data = <<>> /\ face_std = 0
    /\ children = <<>> /\ cf_anchor = <<>> /\ cf_output = <<>> /\ cf_frame = 0
    /\ cf_last = NoLastFace /\ cf_error = ""

-----------------------------------------------------------------------------
(* scripts/extract-pose.py process_vid_json and main *)

\* the four asserts of consume_person_data on one entry of "people"
person_asserts(raw_person) == raw_person.shape = "ok"

\* consume_person_data: the skeleton of one entry, no identity assigned yet
consume_person_data(raw_person) == Skeleton(raw_person.pose, None)

\* consume_file: the skeletons of one frame; `raised` when the comprehension
\* over raw_people meets an entry that fails an assert
consume_file(people) ==
    [raised    |-> \E n \in 1..Len(people) : ~person_asserts(people[n]),
     skeletons |-> [n \in 1..Len(people) |-> consume_person_data(people[n])]]

\* a loop that never looks back at the previous frame
old_skeletons_none(skels, idx) == <<>>

\* `[] if (file_idx == 0) else skeletons[file_idx - 1]`; skels is the list's last entry
old_skeletons(skels, idx) == IF idx = 0 THEN <<>> ELSE skels

IdsOf(frame) == [n \in 1..Len(frame) |-> frame[n].id]

TrackInit ==
    /\ pc = "main" /\ vid = 0 /\ uids = <<>> /\ file_idx = 0 /\ skeletons = <<>>
    /\ n_rows = 0 /\ buffer = {} /\ last = NoLast
    /\ failed_vids = <<>> /\ written = {}

\* main takes the next video; process_vid_json starts with an empty table, no
\* skeletons and a new IdBuffer.  uid_provider is the module's and is kept.
\* (process_vid_json asserts more than 10 frame files; the number of frames
\* enters nothing else, and the videos of the model are shorter.)
StartVideo ==
    /\ pc = "main"
    /\ vid < MaxVideos
    /\ vid' = vid + 1
    /\ file_idx' = 0
    /\ skeletons' = <<>>
    /\ n_rows' = 0
    /\ buffer' = {}
    /\ last' = NoLast
    /\ pc' = "loop"
    /\ UNCHANGED <<uids, failed_vids, written>>

\* one iteration of `for file_idx, file_path in enumerate(json_files)` on a frame
\* holding `people`
Frame(people) ==
    /\ pc = "loop"
    /\ file_idx < MaxFrames
    /\ \E old \in {old_skeletons(skeletons, file_idx)}, consumed \in {consume_file(people)} :
       IF consumed.raised
       THEN \* consume_file raises before `skeletons.append`; main's except clause
            \* logs the video
            /\ failed_vids' = Append(failed_vids, <<vid, "AssertionError">>)
            /\ pc' = "main"
            /\ UNCHANGED <<vid, uids, file_idx, skeletons, n_rows, buffer, last, written>>
       ELSE
       \E new_skeletons \in {consumed.skeletons} :
       \E m \in {match_assign(old, new_skeletons)} :
          IF m.raised
          THEN \* match_keypoints raises; main's except clause logs the video
               /\ skeletons' = new_skeletons
               /\ failed_vids' = Append(failed_vids, <<vid, "ZeroDivisionError">>)
               /\ pc' = "main"
               /\ UNCHANGED <<vid, uids, file_idx, n_rows, buffer, last, written>>
          ELSE \E fresh \in [1..NoneCount(m.ids) -> 0..MaxUid] :
               /\ get_uids(uids, fresh)
               /\ \E ids \in {fill_ids(m.ids, fresh)} :
                  \E upd \in {IdBuffer_update(buffer, ids)} :
                     /\ skeletons' = [n \in 1..Len(new_skeletons) |->
                                        Skeleton(new_skeletons[n].joints, upd.ids[n])]
                     /\ buffer' = upd.buffer
                     /\ last' = [ran |-> m.ran,
                                 best_permutation |-> m.loop.best_permutation,
                                 old_ids |-> IdsOf(old),
                                 ids |-> ids,
                                 uids_before |-> uids,
                                 buffer_before |-> buffer,
                                 absent_before |-> last.absent,
                                 absent |-> IF upd.buffer \ Range(upd.ids) = {}
                                            THEN 0 ELSE last.absent + 1]
               /\ uids' = uids \o fresh
               /\ file_idx' = file_idx + 1
               /\ n_rows' = n_rows + Len(new_skeletons)
               /\ UNCHANGED <<pc, vid, failed_vids, written>>

\* the frames are used up: the table is written, unless no frame held a skeleton
\* (`data["joint"]` of an empty DataFrame raises KeyError)
EndVideo ==
    /\ pc = "loop"
    /\ file_idx >= 1
    /\ IF n_rows = 0
       THEN /\ failed_vids' = Append(failed_vids, <<vid, "KeyError">>)
            /\ UNCHANGED written
       ELSE /\ written' = written \cup {vid}
            /\ UNCHANGED failed_vids
    /\ pc' = "main"
    /\ UNCHANGED <<vid, uids, file_idx, skeletons, n_rows, buffer, last>>

TrackNext ==
    \/ StartVideo /\ UNCHANGED matchVars /\ UNCHANGED poseVars /\ UNCHANGED batchVars /\ UNCHANGED faceVars
    \/ (\E people \in RawFrames : Frame(people)) /\ UNCHANGED matchVars /\ UNCHANGED poseVars /\ UNCHANGED batchVars /\ UNCHANGED faceVars
    \/ EndVideo /\ UNCHANGED matchVars /\ UNCHANGED poseVars /\ UNCHANGED batchVars /\ UNCHANGED faceVars

Init == TrackInit /\ MatchIdle /\ PoseIdle /\ BatchIdle /\ FaceIdle

Spec == Init /\ [][TrackNext]_vars

-----------------------------------------------------------------------------
(* The matchers on their own: match_keypoints and match_faces applied to inputs *)

MatchInit ==
    /\ m_out = <<>>
    /\ \/ /\ m_kind = "keypoints"
          /\ m_previous \in MatchPrevious
          /\ m_current \in MatchCurrent
          /\ m_weight = 0
       \/ /\ m_kind = "faces"
          /\ m_previous \in SkeletonAnchors
          /\ m_current \in FaceAnchors
          /\ m_weight \in Weights

\* match_keypoints(previous, current), up to the allocation of new identities
MatchKeypoints ==
    /\ m_kind = "keypoints"
    /\ m_out = <<>>
    /\ m_out' = <<match_assign(m_previous, m_current)>>
    /\ UNCHANGED <<m_kind, m_previous, m_current, m_weight>>

\* match_faces(skeleton_anchors, face_anchors, uncertainty_weight)
MatchFaces ==
    /\ m_kind = "faces"
    /\ m_out = <<>>
    /\ m_out' = <<match_faces(m_previous, m_current, m_weight)>>
    /\ UNCHANGED <<m_kind, m_previous, m_current, m_weight>>

MatchNext ==
    \/ MatchKeypoints /\ UNCHANGED trackVars /\ UNCHANGED poseVars /\ UNCHANGED batchVars /\ UNCHANGED faceVars
    \/ MatchFaces /\ UNCHANGED trackVars /\ UNCHANGED poseVars /\ UNCHANGED batchVars /\ UNCHANGED faceVars

InitMatch == MatchInit /\ TrackIdle /\ PoseIdle /\ BatchIdle /\ FaceIdle

SpecMatch == InitMatch /\ [][MatchNext]_vars

-----------------------------------------------------------------------------
(* scripts/consolidate-pose.py process_file *)

\* (left_child, right_child), the keys of id_map in insertion order
Roles == <<"left", "right">>

\* the rows of one (frame, child_id) block as the output table is created
ZeroRows == [j \in JointSet |-> Keypoint(0, 0, 0)]

\* the table created before the loop: index range(max_frame) x roles x JOINTS
zero_output(max_frame) == [k \in (0..(max_frame - 1)) \X Range(Roles) |-> ZeroRows]

\* output.loc[(frame, child_id, joint), :] = ... for every joint; a key the index
\* lacks is added to it
write_rows(out, f, child_id, rows) ==
    [k \in DOMAIN out \cup {<<f, child_id>>} |-> IF k = <<f, child_id>> THEN rows ELSE out[k]]

\* update_skeleton(child_id, auto_id) on the state of one loop iteration
update_skeleton(st, d, f, child_id, auto_id) ==
    IF child_id \notin st.pending_child_ids \/ auto_id \notin st.pending_auto_ids
    THEN [st EXCEPT !.error = "KeyError"]
    ELSE [pending_child_ids |-> st.pending_child_ids \ {child_id},
          pending_auto_ids  |-> st.pending_auto_ids \ {auto_id},
          id_map            |-> [st.id_map EXCEPT ![child_id] = @ \cup {auto_id}],
          assigned          |-> [st.assigned EXCEPT ![child_id] = @ \cup {auto_id}],
          output            |-> write_rows(st.output, f, child_id, d[f + 1][auto_id]),
          error             |-> ""]

\* `for auto_id in automatic_ids: for (child_id, known_ids) in id_map.items(): ...`
RECURSIVE propagate(_, _, _, _, _)
propagate(st, d, f, automatic_ids, i) ==
    IF i > Len(automatic_ids) \/ st.error # "" THEN st
    ELSE LET known == {r \in 1..Len(Roles) : automatic_ids[i] \in st.id_map[Roles[r]]}
         IN IF known = {}
            THEN propagate(st, d, f, automatic_ids, i + 1)
            ELSE propagate(update_skeleton(st, d, f, Roles[Min(known)], automatic_ids[i]),
                           d, f, automatic_ids, i + 1)

\* the state after the direct recognition of frame f
recognise(map, out, d, f) ==
    propagate([pending_child_ids |-> Range(Roles), pending_auto_ids |-> DOMAIN d[f + 1],
               id_map |-> map, assigned |-> NoneAssigned, output |-> out, error |-> ""],
              d, f, SortedSeq(DOMAIN d[f + 1]), 1)

\* one iteration of `for frame in tqdm(frames)`
process_frame(map, out, d, f) ==
    IF Cardinality(DOMAIN d[f + 1]) > 2
    THEN [pending_child_ids |-> {}, pending_auto_ids |-> {}, id_map |-> map,
          assigned |-> NoneAssigned, output |-> out, error |-> "AssertionError"]
    ELSE LET st == recognise(map, out, d, f)
         IN IF st.error # "" THEN st
            ELSE IF Cardinality(st.pending_child_ids) = 0
            THEN IF Cardinality(st.pending_auto_ids) = 0 THEN st
                 ELSE [st EXCEPT !.error = "AssertionError"]
            ELSE IF Cardinality(st.pending_child_ids) = 1 /\ Cardinality(st.pending_auto_ids) = 1
            \* next(pending_child_ids): a set is not an iterator
            THEN [st EXCEPT !.error = "TypeError"]
            ELSE st

\* the tables process_file may be handed: every frame holds at most
\* number_people_max skeletons, and the last frame of the table holds one
PoseFrames ==
    {<<>>} \cup UNION {[ids -> TablePoses] : ids \in {S \in SUBSET PersonIds :
                                                       Cardinality(S) \in 1..number_people_max}}

PoseTables ==
    {d \in SeqsUpTo(PoseFrames, MaxRows) : Len(d) >= 1 /\ DOMAIN d[Len(d)] # {}}

PoseInit ==
    /\ cp_pc = "start"
    /\ data \in PoseTables
    /\ leftmost_id = None /\ rightmost_id = None
    /\ id_map = [left |-> {}, right |-> {}]
    /\ assigned = NoneAssigned
    /\ output = <<>>
    /\ cp_frame = 0
    /\ cp_error = ""

\* a lookup table that knows both automatic ids under both roles
seed_map_shared(pair) ==
    [left  |-> {pair.leftmost_id, pair.rightmost_id},
     right |-> {pair.leftmost_id, pair.rightmost_id}]

\* id_map = { left_child : { leftmost_id }, right_child : { rightmost_id } }
seed_map(pair) == [left |-> {pair.leftmost_id}, right |-> {pair.rightmost_id}]

\* process_file up to the loop: the zero table, the first ordered pair, id_map
Seed ==
    /\ cp_pc = "start"
    /\ \E pair \in {get_first_ordered_pair(data)} :
          /\ output' = zero_output(Max(frames_of(data)))
          /\ IF pair.ok
             THEN /\ leftmost_id' = pair.leftmost_id
                  /\ rightmost_id' = pair.rightmost_id
                  /\ id_map' = seed_map(pair)
                  /\ cp_frame' = Min(frames_of(data))
                  /\ cp_pc' = "loop"
                  /\ UNCHANGED cp_error
             ELSE /\ cp_pc' = "failed"
                  /\ cp_error' = "AssertionError"
                  /\ UNCHANGED <<leftmost_id, rightmost_id, id_map, cp_frame>>
    /\ UNCHANGED <<data, assigned>>

\* one loop iteration, on frame cp_frame; after the last frame the table is returned
FrameStep ==
    /\ cp_pc = "loop"
    /\ \E st \in {process_frame(id_map, output, data, cp_frame)} :
          /\ output' = st.output
          /\ id_map' = st.id_map
          /\ assigned' = st.assigned
          /\ IF st.error # ""
             THEN /\ cp_pc' = "failed"
                  /\ cp_error' = st.error
                  /\ UNCHANGED cp_frame
             ELSE /\ UNCHANGED cp_error
                  /\ IF cp_frame = Max(frames_of(data))
                     THEN cp_pc' = "done" /\ UNCHANGED cp_frame
                     ELSE /\ cp_pc' = "loop"
                          /\ cp_frame' = Min({f \in frames_of(data) : f > cp_frame})
    /\ UNCHANGED <<data, leftmost_id, rightmost_id>>

PoseNext ==
    \/ Seed /\ UNCHANGED trackVars /\ UNCHANGED matchVars /\ UNCHANGED batchVars /\ UNCHANGED faceVars
    \/ FrameStep /\ UNCHANGED trackVars /\ UNCHANGED matchVars /\ UNCHANGED batchVars /\ UNCHANGED faceVars

InitPose == PoseInit /\ TrackIdle /\ MatchIdle /\ BatchIdle /\ FaceIdle

SpecPose == InitPose /\ [][PoseNext]_vars

-----------------------------------------------------------------------------
(* scripts/consolidate-pose.py main, with local/util.py FailedVidLogger *)

\* entries of one run
MaxEntries == 2
\* frames of the table of one entry
MaxBatchRows == 2

\* an add_failed that leaves the CSV at csv_path alone
add_failed_memory(logger, video, reason) ==
    [logger EXCEPT !.failed_vids = Append(@, <<video, reason>>)]

\* FailedVidLogger.add_failed: the row is appended to the CSV, then to failed_vids
add_failed(logger, video, reason) ==
    [csv         |-> Append(logger.csv, <<video, reason>>),
     failed_vids |-> Append(logger.failed_vids, <<video, reason>>)]

\* the tables read from the skeleton files of the run
BatchTables ==
    {d \in SeqsUpTo(PoseFrames, MaxBatchRows) : Len(d) >= 1 /\ DOMAIN d[Len(d)] # {}}

\* main before the loop: FailedVidLogger(cli, csv_path) writes a CSV with the
\* header only
BatchInit ==
    /\ entry = 0 /\ video_logger = NoLogger /\ out_csv = {}
    /\ cp_pc = "main" /\ data = <<>> /\ leftmost_id = None /\ rightmost_id = None
    /\ id_map = [left |-> {}, right |-> {}] /\ assigned = NoneAssigned
    /\ output = <<>> /\ cp_frame = 0 /\ cp_error = ""

\* the next entry of the loop: `data = pd.read_csv(skeleton_file, ...)` and the
\* call of process_file
ReadCsv ==
    /\ cp_pc = "main"
    /\ entry < MaxEntries
    /\ entry' = entry + 1
    /\ data' \in BatchTables
    /\ cp_pc' = "start"
    /\ leftmost_id' = None /\ rightmost_id' = None
    /\ id_map' = [left |-> {}, right |-> {}]
    /\ assigned' = NoneAssigned
    /\ output' = <<>> /\ cp_frame' = 0 /\ cp_error' = ""
    /\ UNCHANGED <<video_logger, out_csv>>

\* processed.to_csv(out_csv)
ToCsv ==
    /\ cp_pc = "done"
    /\ out_csv' = out_csv \cup {entry}
    /\ cp_pc' = "written"
    /\ UNCHANGED <<entry, video_logger, data, leftmost_id, rightmost_id, id_map, assigned, output,
                   cp_frame, cp_error>>

\* visualize(viz_dir, vid, processed): pose.visualize_skeletons asserts that the
\* video file exists before it draws
Visualize ==
    /\ cp_pc = "written"
    /\ \E vid_is_file \in BOOLEAN :
          IF vid_is_file
          THEN cp_pc' = "main" /\ UNCHANGED cp_error
          ELSE cp_pc' = "failed" /\ cp_error' = "AssertionError"
    /\ UNCHANGED <<entry, video_logger, out_csv, data, leftmost_id, rightmost_id, id_map,
                   assigned, output, cp_frame>>

\* `except Exception as e: video_logger.add_failed(skeleton_file, repr(e)); continue`
Except ==
    /\ cp_pc = "failed"
    /\ video_logger' = add_failed(video_logger, entry, cp_error)
    /\ cp_pc' = "main"
    /\ UNCHANGED <<entry, out_csv, data, leftmost_id, rightmost_id, id_map, assigned, output, cp_frame,
                   cp_error>>

BatchNext ==
    \/ ReadCsv /\ UNCHANGED trackVars /\ UNCHANGED matchVars /\ UNCHANGED faceVars
    \/ Seed /\ UNCHANGED trackVars /\ UNCHANGED matchVars /\ UNCHANGED batchVars /\ UNCHANGED faceVars
    \/ FrameStep /\ UNCHANGED trackVars /\ UNCHANGED matchVars /\ UNCHANGED batchVars /\ UNCHANGED faceVars
    \/ ToCsv /\ UNCHANGED trackVars /\ UNCHANGED matchVars /\ UNCHANGED faceVars
    \/ Visualize /\ UNCHANGED trackVars /\ UNCHANGED matchVars /\ UNCHANGED faceVars
    \/ Except /\ UNCHANGED trackVars /\ UNCHANGED matchVars /\ UNCHANGED faceVars

InitBatch == BatchInit /\ TrackIdle /\ MatchIdle /\ FaceIdle

SpecBatch == InitBatch /\ [][BatchNext]_vars

-----------------------------------------------------------------------------
(* scripts/consolidate-face.py process_faces *)

POSE_HEAD_POINTS == << "nose", "right_eye", "left_eye", "right_ear", "left_ear" >>

\* get_skelly_facepos on the joints of one (frame, skeleton_id): the mean position
\* of the head joints above MIN_CONFIDENCE, the confidence summed over them and
\* divided by len(POSE_HEAD_POINTS)
get_skelly_facepos(joints) ==
    LET keypoints == {j \in Range(POSE_HEAD_POINTS) : joints[j].confidence > MIN_CONFIDENCE}
    IN IF keypoints = {}
       THEN Keypoint(0, 0, 0)
       ELSE Keypoint(SumSet(keypoints, [j \in JointSet |-> joints[j].x]) \div Cardinality(keypoints),
                     SumSet(keypoints, [j \in JointSet |-> joints[j].y]) \div Cardinality(keypoints),
                     SumSet(keypoints, [j \in JointSet |-> joints[j].confidence])
                         \div Len(POSE_HEAD_POINTS))

\* an Optional[Keypoint]: found is FALSE for None
NoFacepos == [found |-> FALSE, keypoint |-> Keypoint(0, 0, 0)]

\* a lookup that returns the head position of every row the table holds
maybe_skelly_facepos_any(d, f, id) ==
    IF f + 1 \in DOMAIN d /\ id \in DOMAIN d[f + 1]
    THEN [found |-> TRUE, keypoint |-> get_skelly_facepos(d[f + 1][id])]
    ELSE NoFacepos

\* maybe_skelly_facepos(skeleton_data, frame, skeleton_id)
maybe_skelly_facepos(d, f, id) ==
    IF f + 1 \in DOMAIN d /\ id \in DOMAIN d[f + 1]
    THEN LET face_pos == get_skelly_facepos(d[f + 1][id])
         IN IF face_pos.confidence > MIN_CONFIDENCE
            THEN [found |-> TRUE, keypoint |-> face_pos]
            ELSE NoFacepos
    ELSE NoFacepos

\* seek_first_face(skeleton_data, skeleton_id): found is FALSE when it raises
seek_first_face(d, id) ==
    LET good == {f \in frames_of(d) : maybe_skelly_facepos(d, f, id).found}
    IN IF good = {} THEN NoFacepos ELSE maybe_skelly_facepos(d, Min(good), id)

\* a row of face_data: x and y stand for the 2D landmark columns, by their means
Face(x, confidence, success) == [x |-> x, y |-> 0, confidence |-> confidence, success |-> success]

\* the rows of output as it is created
ZeroFace == Face(0, 0, 0)

\* get_face_facepos on one row
get_face_facepos(row) == Keypoint(row.x, row.y, row.confidence)

\* face_data[face_data["success"] == 1]
successful(fd) ==
    [n \in DOMAIN fd |-> [id \in {i \in DOMAIN fd[n] : fd[n][i].success = 1} |-> fd[n][id]]]

\* the table created before the loop: index range(max_frame) x (left_child, right_child)
zero_faces(max_frame, pair) ==
    [k \in (0..(max_frame - 1)) \X {pair.leftmost_id, pair.rightmost_id} |-> ZeroFace]

\* process_faces up to the loop; error names the exception raised, if any
face_seed(sd, fd) ==
    LET face_frames   == frames_of(successful(fd))
        skelly_frames == frames_of(sd)
        pair          == get_first_ordered_pair(sd)
        failed(e)     == [error |-> e, max_frame |-> 0, children |-> <<>>, anchors |-> <<>>,
                          output |-> <<>>]
    IN IF face_frames = {} \/ skelly_frames = {} THEN failed("IndexError")
       ELSE IF ~pair.ok THEN failed("AssertionError")
       ELSE IF ~seek_first_face(sd, pair.leftmost_id).found
               \/ ~seek_first_face(sd, pair.rightmost_id).found THEN failed("Exception")
       ELSE LET max_frame == IF Max(face_frames) > Max(skelly_frames)
                             THEN Max(face_frames) ELSE Max(skelly_frames)
            IN [error     |-> "",
                max_frame |-> max_frame,
                children  |-> <<pair.leftmost_id, pair.rightmost_id>>,
                anchors   |-> <<seek_first_face(sd, pair.leftmost_id).keypoint,
                                seek_first_face(sd, pair.rightmost_id).keypoint>>,
                output    |-> zero_faces(max_frame, pair)]

\* max_frame of process_faces
face_max_frame(sd, fd) == face_seed(sd, fd).max_frame

\* a loop that never replaces the anchors found before it
carry_initial(sd, f, kids, anchors) == anchors

\* `if candidate is not None: anchor = candidate`, for both children
carry(sd, f, kids, anchors) ==
    [i \in 1..2 |-> IF maybe_skelly_facepos(sd, f, kids[i]).found
                    THEN maybe_skelly_facepos(sd, f, kids[i]).keypoint
                    ELSE anchors[i]]

\* one iteration of `for frame in trange(max_frame)`
face_frame(sd, fd, std, kids, anchors, out, f) ==
    LET now              == carry(sd, f, kids, anchors)
        skeleton_anchors == [i \in 1..2 |-> Anchor(kids[i], now[i])]
        good             == successful(fd)
    IN IF f \in frames_of(good)
       THEN LET face_candidate_ids == SortedSeq(DOMAIN good[f + 1])
                face_anchors == [n \in 1..Len(face_candidate_ids) |->
                                    Anchor(face_candidate_ids[n],
                                           get_face_facepos(good[f + 1][face_candidate_ids[n]]))]
                matching == match_faces(skeleton_anchors, face_anchors, std).output
            IN [anchors |-> now,
                last    |-> [frame |-> f, skeleton_anchors |-> skeleton_anchors,
                             face_anchors |-> face_anchors,
                             called |-> TRUE, matching |-> matching],
                output  |-> [k \in DOMAIN out |->
                                IF k[1] = f /\ k[2] \in DOMAIN matching
                                THEN good[f + 1][matching[k[2]]]
                                ELSE out[k]]]
       ELSE [anchors |-> now,
             last    |-> [frame |-> f, skeleton_anchors |-> skeleton_anchors,
                          face_anchors |-> <<>>,
                          called |-> FALSE, matching |-> <<>>],
             output  |-> out]

\* frames of the tables handed to process_faces
MaxFaceFrames == 3

\* child_ids of the consolidated skeleton table
ChildIds == {1, 2}

\* rows of the consolidated skeleton table.  Child 1: a head seen at x = 100, a
\* head seen at x = 300, or the nose alone (too little for a head anchor).
\* Child 2: a head seen at x = 500, or the all-zero rows of an unresolved role.
FirstChildPoses == {Pose(100, {"nose", "left_eye"}), Pose(300, {"nose", "left_eye"}),
                    Pose(100, {"nose"})}
SecondChildPoses == {Pose(500, {"nose", "left_eye"}), Pose(0, {})}

\* a child whose head is hidden in every frame: seen by the neck alone
HiddenHeadPoses == {Pose(100, {"neck"})}

SkeletonTables ==
    {d \in SeqsUpTo({f \in [ChildIds -> FirstChildPoses \cup SecondChildPoses] :
                        f[1] \in FirstChildPoses /\ f[2] \in SecondChildPoses},
                    MaxFaceFrames) : Len(d) >= 1}
    \cup
    {d \in SeqsUpTo({f \in [ChildIds -> HiddenHeadPoses \cup SecondChildPoses] :
                        f[1] \in HiddenHeadPoses /\ f[2] \in SecondChildPoses},
                    MaxFaceFrames) : Len(d) >= 1}

\* what the face detector may report for one frame: nothing; one face at x = 100;
\* a face at x = 500 and one at x = 100; a failed registration and a face at 300;
\* five faces (the children and three bystanders or spurious detections)
FaceFrames ==
    { <<>>,
      (0 :> Face(100, 100, 1)),
      (0 :> Face(500, 100, 1)) @@ (1 :> Face(100, 80, 1)),
      (0 :> Face(500, 100, 0)) @@ (1 :> Face(300, 100, 1)),
      [id \in 0..4 |-> Face(100 * (id + 1), 90, 1)] }

FaceTables == {d \in SeqsUpTo(FaceFrames, MaxFaceFrames) : Len(d) >= 1}

FaceInit ==
    /\ cf_pc = "start"
    /\ skeleton_data \in SkeletonTables
    /\ face_data \in FaceTables
    /\ face_std = Max(Weights)
    /\ children = <<>> /\ cf_anchor = <<>> /\ cf_output = <<>> /\ cf_frame = 0
    /\ cf_last = NoLastFace /\ cf_error = ""

\* process_faces up to the loop
FaceSeed ==
    /\ cf_pc = "start"
    /\ \E st \in {face_seed(skeleton_data, face_data)} :
          /\ cf_error' = st.error
          /\ children' = st.children
          /\ cf_anchor' = st.anchors
          /\ cf_output' = st.output
          /\ cf_pc' = IF st.error # "" THEN "failed"
                      ELSE IF st.max_frame = 0 THEN "done" ELSE "loop"
    /\ UNCHANGED <<skeleton_data, face_data, face_std, cf_frame, cf_last>>

\* one loop iteration, on frame cf_frame; after frame max_frame - 1 the table is
\* returned
FaceStep ==
    /\ cf_pc = "loop"
    /\ \E st \in {face_frame(skeleton_data, face_data, face_std, children, cf_anchor,
                             cf_output, cf_frame)} :
          /\ cf_anchor' = st.anchors
          /\ cf_last' = st.last
          /\ cf_output' = st.output
    /\ IF cf_frame + 1 = face_max_frame(skeleton_data, face_data)
       THEN cf_pc' = "done" /\ UNCHANGED cf_frame
       ELSE cf_pc' = "loop" /\ cf_frame' = cf_frame + 1
    /\ UNCHANGED <<skeleton_data, face_data, face_std, children, cf_error>>

FaceNext ==
    \/ FaceSeed /\ UNCHANGED trackVars /\ UNCHANGED matchVars /\ UNCHANGED poseVars /\ UNCHANGED batchVars
    \/ FaceStep /\ UNCHANGED trackVars /\ UNCHANGED matchVars /\ UNCHANGED poseVars /\ UNCHANGED batchVars

InitFace == FaceInit /\ TrackIdle /\ MatchIdle /\ PoseIdle /\ BatchIdle

SpecFace == InitFace /\ [][FaceNext]_vars

-----------------------------------------------------------------------------
(* extract-pose.py followed by consolidate-pose.py on the table it wrote *)

\* the rows process_vid_json adds to the table for one frame, indexed by
\* person_id: a frame without skeletons adds none
table_rows(skels) ==
    [id \in {skels[n].id : n \in 1..Len(skels)} |->
        skels[CHOOSE n \in 1..Len(skels) : skels[n].id = id].joints]

\* the "people" arrays of the video followed through both scripts: well formed,
\* and two people are listed from left to right
PipeFrames ==
    {f \in RawFrames :
        /\ \A n \in 1..Len(f) : f[n].shape = "ok"
        /\ Len(f) = 2 => f[1].pose["nose"].x < f[2].pose["nose"].x}

\* main of extract-pose.py takes the first video
PipeStart ==
    /\ vid = 0
    /\ StartVideo
    /\ UNCHANGED poseVars

\* one iteration of the frame loop, the frame's rows appended to the table
PipeFrame(people) ==
    /\ Frame(people)
    /\ data' = IF pc' = "loop" THEN Append(data, table_rows(skeletons')) ELSE data
    /\ UNCHANGED <<cp_pc, leftmost_id, rightmost_id, id_map, assigned, output, cp_frame, cp_error>>

\* the table is written as <video>-skeleton-data.csv; consolidate-pose.py reads it
\* and calls process_file
PipeEnd ==
    /\ EndVideo
    /\ cp_pc' = IF vid \in written' THEN "start" ELSE cp_pc
    /\ UNCHANGED <<data, leftmost_id, rightmost_id, id_map, assigned, output, cp_frame, cp_error>>

PipeNext ==
    \/ PipeStart /\ UNCHANGED matchVars /\ UNCHANGED batchVars /\ UNCHANGED faceVars
    \/ (\E people \in PipeFrames : PipeFrame(people)) /\ UNCHANGED matchVars /\ UNCHANGED batchVars /\ UNCHANGED faceVars
    \/ PipeEnd /\ UNCHANGED matchVars /\ UNCHANGED batchVars /\ UNCHANGED faceVars
    \/ Seed /\ UNCHANGED trackVars /\ UNCHANGED matchVars /\ UNCHANGED batchVars /\ UNCHANGED faceVars
    \/ FrameStep /\ UNCHANGED trackVars /\ UNCHANGED matchVars /\ UNCHANGED batchVars /\ UNCHANGED faceVars

InitPipe == TrackInit /\ MatchIdle /\ PoseIdle /\ BatchIdle /\ FaceIdle

SpecPipe == InitPipe /\ [][PipeNext]_vars


-----------------------------------------------------------------------------
(* Properties of the tracker (extract-pose.py) *)

\* a loop iteration that ran to its end
FrameDone == pc = "loop" /\ pc' = "loop" /\ file_idx' = file_idx + 1

\* the identity-tagged detections of frame k - 1, none before frame 0
PreviousFrame == IF file_idx = 0 THEN <<>> ELSE skeletons

\* the current detections (counted from 1) no previous detection was matched to
Unmatched(ran, permutation, n_current) ==
    {n \in 1..n_current :
        ~(ran /\ \E old \in 1..Len(permutation) : permutation[old] = n - 1)}

AssignedAsTracked ==
    LET prev      == PreviousFrame
        perm      == last'.best_permutation
        ids       == last'.ids
        n_current == Len(skeletons')
        unmatched == Unmatched(last'.ran, perm, n_current)
    IN /\ Len(ids) = n_current
       /\ last'.old_ids = IdsOf(prev)
       \* the matcher runs between frame k - 1 and frame k
       /\ last'.ran <=> (Len(prev) > 0 /\ n_current > 0)
       /\ last'.ran =>
             /\ Len(perm) = Len(prev)
             /\ \A old \in 1..Len(prev) : perm[old] \in -1..(n_current - 1)
             /\ Cardinality({old \in 1..Len(prev) : perm[old] >= 0}) = Min2(Len(prev), n_current)
             \* a matched detection takes the identity of its match, and keeps it
             /\ \A old \in 1..Len(prev) :
                   perm[old] >= 0 =>
                      /\ ids[perm[old] + 1] = prev[old].id
                      /\ skeletons'[perm[old] + 1].id = prev[old].id
       \* an unmatched detection, and every detection of frame 0, gets an identity
       \* that was never issued before
       /\ \A n \in unmatched : ids[n] \notin Range(uids) /\ ids[n] \in Range(uids')
       /\ \A n1, n2 \in unmatched : n1 # n2 => ids[n1] # ids[n2]

C4_UidsUnique ==
    \A i, j \in 1..Len(uids) : i # j => uids[i] # uids[j]

\* the first frame of the second video is given a new identity while identities of
\* the first video are on record
C4_Witness ==
    /\ vid = 2 /\ pc = "loop" /\ file_idx = 1
    /\ Len(last.uids_before) >= 2
    /\ Len(uids) > Len(last.uids_before)

\* the frame just handled lost exactly one identity of a buffer of more than one and
\* gained exactly one
SingleSwap ==
    /\ Cardinality(last.buffer_before) > 1
    /\ Cardinality(last.buffer_before \ Range(last.ids)) = 1
    /\ Cardinality(Range(last.ids) \ last.buffer_before) = 1

\* C5: with more than one known identity, a frame that shows one of them plus
\* exactly one new identity while the other is missing has the new identity's
\* detection relabelled to the missing one, and the known set stays as it was,
\* however many frames the missing identity was absent.
C5_FlickerCorrection ==
    (pc = "loop" /\ file_idx >= 1 /\ SingleSwap) =>
        LET lost_id   == CHOOSE x \in last.buffer_before \ Range(last.ids) : TRUE
            gained_id == CHOOSE x \in Range(last.ids) \ last.buffer_before : TRUE
        IN /\ buffer = last.buffer_before
           /\ IdsOf(skeletons) = [n \in 1..Len(last.ids) |->
                                    IF last.ids[n] = gained_id THEN lost_id ELSE last.ids[n]]
           /\ Range(IdsOf(skeletons)) = last.buffer_before

\* {A,B} known, B missing for two frames or more, then a frame shows A and a new C:
\* C's detection carries B
C5_Witness ==
    /\ pc = "loop" /\ SingleSwap /\ last.absent_before >= 2
    /\ Len(last.old_ids) = 1 /\ last.old_ids[1] \in Range(last.ids)
    /\ Len(last.ids) = 2
    /\ buffer = last.buffer_before
    /\ Range(IdsOf(skeletons)) = buffer
    /\ IdsOf(skeletons) # last.ids

\* C6 as the specification words it: whenever the single swap does not apply, the
\* known set is replaced by the identities of the new frame.
C6_Original ==
    (pc = "loop" /\ file_idx >= 1 /\ ~SingleSwap) =>
        /\ buffer = Range(last.ids)
        /\ IdsOf(skeletons) = last.ids

\* C6: a frame that brings no new identity (all of its identities are known, some
\* known ones may be missing, the frame may be empty) leaves the known set as it
\* was; any other frame to which the single swap does not apply replaces the known
\* set by the frame's identities.  No identity of such a frame is relabelled.
C6_BufferReplacement ==
    (pc = "loop" /\ file_idx >= 1 /\ ~SingleSwap) =>
        /\ IdsOf(skeletons) = last.ids
        /\ IF Range(last.ids) \ last.buffer_before = {}
           THEN buffer = last.buffer_before
           ELSE buffer = Range(last.ids)

\* {A,B} known and a frame that shows A only: the known set is still {A,B}
C6_Witness ==
    /\ pc = "loop" /\ file_idx >= 2
    /\ Cardinality(last.buffer_before) = 2
    /\ Len(last.ids) = 1
    /\ Range(last.ids) \subseteq last.buffer_before
    /\ buffer = last.buffer_before

\* two known identities and a frame of two new ones: the known set is replaced
C6_WitnessReplaced ==
    /\ pc = "loop" /\ Cardinality(last.buffer_before) = 2
    /\ Cardinality(Range(last.ids) \ last.buffer_before) = 2
    /\ buffer = Range(last.ids)

-----------------------------------------------------------------------------
(* Properties of the matchers *)

\* no index of the current side is used by two entries of the permutation
Injective(permutation) ==
    \A a, b \in 1..Len(permutation) :
        (a # b /\ permutation[a] >= 0) => permutation[a] # permutation[b]

\* the assignments of n_previous indices to distinct current indices or voids: a
\* void is used only when the current side is the shorter one, for the excess
Assignments(n_previous, n_current) ==
    {q \in [1..n_previous -> -1..(n_current - 1)] :
        /\ Injective(q)
        /\ Cardinality({a \in 1..n_previous : q[a] = -1}) =
              (IF n_previous > n_current THEN n_previous - n_current ELSE 0)}

\* C2: the matching chosen by match_keypoints, and by match_faces, is one-to-one:
\* no current detection is matched to two previous entries and no previous entry
\* is mapped to two current detections.
C2_OneToOne ==
    m_out # <<>> =>
        LET out == m_out[1]
        IN IF m_kind = "keypoints"
           THEN /\ out.ran =>
                      /\ Len(out.loop.best_permutation) = Len(m_previous)
                      /\ \A a \in 1..Len(m_previous) :
                            out.loop.best_permutation[a] \in -1..(Len(m_current) - 1)
                      /\ Injective(out.loop.best_permutation)
                \* the identities handed on: none lands on two current skeletons
                /\ \A n1, n2 \in 1..Len(out.ids) :
                      (n1 # n2 /\ out.ids[n1] # None) => out.ids[n1] # out.ids[n2]
                /\ \A n \in 1..Len(out.ids) :
                      out.ids[n] # None =>
                         Cardinality({a \in 1..Len(m_previous) : m_previous[a].id = out.ids[n]}) = 1
           ELSE /\ out.ran =>
                      /\ Len(out.loop.best_permutation) = Len(m_previous)
                      /\ Injective(out.loop.best_permutation)
                /\ DOMAIN out.output \subseteq {m_previous[a].id : a \in 1..Len(m_previous)}
                /\ \A s1, s2 \in DOMAIN out.output :
                      s1 # s2 => out.output[s1] # out.output[s2]
                /\ \A s \in DOMAIN out.output :
                      out.output[s] \in {m_current[f].id : f \in 1..Len(m_current)}

\* three previous skeletons matched against two current ones: both current ones
\* carry an identity, and one previous skeleton is left out
C2_Witness ==
    /\ m_kind = "keypoints" /\ m_out # <<>>
    /\ Len(m_previous) = 3 /\ Len(m_current) = 2
    /\ ~m_out[1].raised
    /\ \A n \in 1..2 : m_out[1].ids[n] # None
    /\ Cardinality({a \in 1..3 : m_out[1].loop.best_permutation[a] = -1}) = 1

\* two skeleton anchors matched against three faces
C2_WitnessFaces ==
    /\ m_kind = "faces" /\ m_out # <<>>
    /\ Len(m_previous) = 2 /\ Len(m_current) = 3
    /\ Cardinality(DOMAIN m_out[1].output) = 2

\* a <= b over the reals, for sums of costs
ExactLeq(a, b) == a.bad < b.bad \/ (a.bad = b.bad /\ a.fin <= b.fin)

\* the permutation match_keypoints selected costs no more, over the reals, than
\* any other assignment
KeypointsOptimal ==
    (m_kind = "keypoints" /\ m_out # <<>> /\ m_out[1].ran) =>
        LET lookup == rmse_lookup(m_previous, m_current)
            n      == Len(m_previous)
            best   == m_out[1].loop.best_permutation
        IN \A q \in Assignments(n, Len(m_current)) :
              ExactLeq(exact_cost(lookup, best, n), exact_cost(lookup, q, n))

\* the same for the sums as Python computes them
KeypointsFloatOptimal ==
    (m_kind = "keypoints" /\ m_out # <<>> /\ m_out[1].ran) =>
        LET lookup == rmse_lookup(m_previous, m_current)
            n      == Len(m_previous)
            best   == m_out[1].loop.best_permutation
        IN \A q \in Assignments(n, Len(m_current)) :
              FLeq(permutation_cost(lookup, best, n), permutation_cost(lookup, q, n))

\* the permutation match_faces selected has the least error
FacesOptimal ==
    (m_kind = "faces" /\ m_out # <<>> /\ m_out[1].ran) =>
        LET lookup == error_lookup(m_previous, m_current, m_weight)
            n      == Len(m_previous)
            best   == m_out[1].loop.best_permutation
        IN \A q \in Assignments(n, Len(m_current)) :
              permutation_error(lookup, best, n) <= permutation_error(lookup, q, n)

\* C3: the assignment the matcher selects minimises the total cost (the sum of
\* get_rmse over the matched pairs; for faces, the sum of get_error): no other
\* assignment of the previous indices to distinct current indices or voids has a
\* lower total.
C3_MinimalTotalCost == KeypointsOptimal /\ FacesOptimal

-----------------------------------------------------------------------------
(* Properties of process_file (consolidate-pose.py) *)

\* the frames of the table with two skeletons or more
MultiFrames == {f \in 0..(Len(data) - 1) : Cardinality(DOMAIN data[f + 1]) >= 2}

\* C7: when get_first_ordered_pair returns, it has taken the first frame, in frame
\* order, that holds at least two distinct identities, and returned as leftmost the
\* identity of that frame whose anchor has the smallest x and as rightmost the one
\* whose anchor has the largest x; the earlier frames do not influence the result.
C7_FirstOrderedPair ==
    leftmost_id # None =>
        /\ MultiFrames # {}
        /\ LET people == data[Min(MultiFrames) + 1]
           IN /\ leftmost_id \in DOMAIN people
              /\ rightmost_id \in DOMAIN people
              /\ leftmost_id # rightmost_id
              /\ XLess(get_center_of_mass(people[leftmost_id]),
                       get_center_of_mass(people[rightmost_id]))
              /\ \A id \in DOMAIN people :
                    /\ ~XLess(get_center_of_mass(people[id]),
                              get_center_of_mass(people[leftmost_id]))
                    /\ ~XLess(get_center_of_mass(people[rightmost_id]),
                              get_center_of_mass(people[id]))

\* the table opens with a frame of one skeleton, standing at x = 500, whose identity
\* is the leftmost of the next frame, the first one with two skeletons
C7_Witness ==
    /\ leftmost_id # None
    /\ Len(data) = 3
    /\ Cardinality(DOMAIN data[1]) = 1
    /\ Cardinality(DOMAIN data[2]) = 2
    /\ leftmost_id \in DOMAIN data[1]
    /\ data[1][leftmost_id] = Pose(500, Upper)

\* the roles left pending by the direct recognition of the frame at hand, and the
\* detections left pending
PendingRoles == recognise(id_map, output, data, cp_frame).pending_child_ids
PendingIds == recognise(id_map, output, data, cp_frame).pending_auto_ids

\* the loop is at a frame in which exactly one role and exactly one detection
\* stay pending
ForcedCase ==
    /\ cp_pc = "loop"
    /\ Cardinality(PendingRoles) = 1
    /\ Cardinality(PendingIds) = 1

\* the loop is at a frame that leaves a role pending and is not the forced case
UnresolvableCase ==
    /\ cp_pc = "loop"
    /\ PendingRoles # {}
    /\ ~(Cardinality(PendingRoles) = 1 /\ Cardinality(PendingIds) = 1)

\* C8: in the table process_file returns, at every frame and for every role, the
\* role's block is a verbatim copy of the detection of that same frame that was
\* resolved to the role, or all-zero when none was; nothing is interpolated or
\* carried forward.
C8_RoleRowsFromSameFrame ==
    cp_pc = "done" =>
        \A f \in 0..Max(frames_of(data)), role \in Range(Roles) :
            LET known == DOMAIN data[f + 1] \cap id_map[role]
            IN /\ <<f, role>> \in DOMAIN output
               /\ IF known = {}
                  THEN output[<<f, role>>] = ZeroRows
                  ELSE \E id \in known : output[<<f, role>>] = data[f + 1][id]

\* what holds of the returned table: every block it has is a copy from the same
\* frame or all-zero, and a block is missing only at the last frame, for a role
\* that was not resolved there
BlocksFromSameFrame ==
    cp_pc = "done" =>
        \A f \in 0..Max(frames_of(data)), role \in Range(Roles) :
            LET known == DOMAIN data[f + 1] \cap id_map[role]
            IN IF <<f, role>> \in DOMAIN output
               THEN IF known = {}
                    THEN output[<<f, role>>] = ZeroRows
                    ELSE \E id \in known : output[<<f, role>>] = data[f + 1][id]
               ELSE f = Max(frames_of(data)) /\ known = {}

\* C9: if after direct recognition exactly one role and exactly one detection
\* remain, the detection is resolved to that role: the role's rows for the frame
\* are the detection's, the identity joins the role's known set, and processing
\* goes on.
C9_ForcedResolution ==
    [][ForcedCase =>
          LET role == CHOOSE r \in PendingRoles : TRUE
              id   == CHOOSE i \in PendingIds : TRUE
          IN /\ cp_pc' \in {"loop", "done"}
             /\ <<cp_frame, role>> \in DOMAIN output'
             /\ output'[<<cp_frame, role>>] = data[cp_frame + 1][id]
             /\ id_map' = [id_map EXCEPT ![role] = @ \cup {id}]]_vars

\* what the code does in the forced case
ForcedCaseRaises ==
    [][ForcedCase => (cp_pc' = "failed" /\ cp_error' = "TypeError" /\ id_map' = id_map)]_vars

\* C10: a frame that leaves two roles unresolved, or one role unresolved with no
\* detection pending, is not an error: the unresolved role's rows for the frame
\* are all-zero and the identity table is unchanged.
C10_UnresolvableFrame ==
    [][UnresolvableCase =>
          /\ cp_pc' \in {"loop", "done"}
          /\ id_map' = id_map
          /\ \A role \in PendingRoles :
                /\ <<cp_frame, role>> \in DOMAIN output'
                /\ output'[<<cp_frame, role>>] = ZeroRows]_vars

\* what holds of such a frame: no error, the identity table unchanged, and the
\* unresolved role's rows all-zero, or missing when the frame is the last one
UnresolvableFrameHarmless ==
    [][UnresolvableCase =>
          /\ cp_pc' \in {"loop", "done"}
          /\ id_map' = id_map
          /\ \A role \in PendingRoles :
                IF <<cp_frame, role>> \in DOMAIN output'
                THEN output'[<<cp_frame, role>>] = ZeroRows
                ELSE cp_frame = Max(frames_of(data))]_vars

\* C11: the table process_file returns has a block of rows for every frame from 0
\* through the last frame of the input and for both roles; a (frame, role) pair
\* without a resolved detection is there as all-zero rows, never absent.
C11_OutputComplete ==
    cp_pc = "done" =>
        \A f \in 0..Max(frames_of(data)), role \in Range(Roles) :
            /\ <<f, role>> \in DOMAIN output
            /\ (DOMAIN data[f + 1] \cap id_map[role] = {} => output[<<f, role>>] = ZeroRows)

\* what holds of the returned table: every frame before the last one has both
\* blocks, and the last frame has the blocks that were written in the loop
CompleteBeforeLastFrame ==
    cp_pc = "done" =>
        \A f \in 0..Max(frames_of(data)), role \in Range(Roles) :
            <<f, role>> \in DOMAIN output
                <=> (f < Max(frames_of(data)) \/ DOMAIN data[f + 1] \cap id_map[role] # {})

\* the successful face detections of frame f
FacesOf(f) ==
    IF f + 1 \in DOMAIN face_data THEN successful(face_data)[f + 1] ELSE <<>>

\* the rows of the frame the loop of process_faces has just handled are what
\* match_faces decided: a matched child has the row of its face, any other child
\* the all-zero row, and no face is given to both children
LastFrameAsMatched ==
    cf_last.frame >= 0 =>
        /\ cf_last.called <=> DOMAIN FacesOf(cf_last.frame) # {}
        /\ \A i \in 1..2 :
              /\ <<cf_last.frame, children[i]>> \in DOMAIN cf_output
              /\ cf_output[<<cf_last.frame, children[i]>>] =
                    IF children[i] \in DOMAIN cf_last.matching
                    THEN FacesOf(cf_last.frame)[cf_last.matching[children[i]]]
                    ELSE ZeroFace
        /\ \A a, b \in DOMAIN cf_last.matching :
              cf_last.matching[a] = cf_last.matching[b] => a = b

\* the rows of frame f in the returned table: both children have one, each is a
\* row of a face detected in frame f or all-zero, and when the frame has face
\* detections at least one child has the row of one of them
FrameEmitted(f) ==
    /\ \A i \in 1..2 :
          /\ <<f, children[i]>> \in DOMAIN cf_output
          /\ \/ cf_output[<<f, children[i]>>] = ZeroFace
             \/ \E id \in DOMAIN FacesOf(f) : cf_output[<<f, children[i]>>] = FacesOf(f)[id]
    /\ DOMAIN FacesOf(f) # {} =>
          \E i \in 1..2 : \E id \in DOMAIN FacesOf(f) :
              cf_output[<<f, children[i]>>] = FacesOf(f)[id]

\* C12: in every frame that has face detections each role matched by match_faces
\* receives the full row of its matched face of that frame; an unmatched role,
\* and both roles in a frame without face detections, keep an all-zero row; no
\* face is emitted under both roles in the same frame.
C12_FaceRowsAsMatched ==
    /\ LastFrameAsMatched
    /\ cf_pc = "done" =>
          \A f \in 0..face_max_frame(skeleton_data, face_data) : FrameEmitted(f)

\* what holds of the returned table: the frames before the last one are emitted
\* as matched
FaceRowsBeforeLastFrame ==
    /\ LastFrameAsMatched
    /\ cf_pc = "done" =>
          \A f \in 0..(face_max_frame(skeleton_data, face_data) - 1) : FrameEmitted(f)

\* a table was returned whose last frame has face detections
LastFrameHasFaces ==
    /\ cf_pc = "done"
    /\ DOMAIN FacesOf(face_max_frame(skeleton_data, face_data)) # {}

\* the frames up to k in which the pose data gives child id a head anchor of
\* sufficient confidence
GoodUpTo(id, k) == {j \in 0..k : maybe_skelly_facepos(skeleton_data, j, id).found}

\* the anchor of child id taken from the pose data of frame j
AnchorOf(id, j) == maybe_skelly_facepos(skeleton_data, j, id).keypoint

\* C13, as stated: at every frame k the anchor handed to match_faces for a role is
\* the role's head anchor of frame k when the pose data gives one with sufficient
\* confidence, otherwise the most recent known-good anchor of an earlier frame;
\* so it depends only on the pose data of frames up to k.
C13_Original ==
    cf_last.frame >= 0 =>
        \A i \in 1..2 :
            /\ cf_last.skeleton_anchors[i].id = children[i]
            /\ GoodUpTo(children[i], cf_last.frame) # {}
            /\ cf_last.skeleton_anchors[i].anchor =
                  AnchorOf(children[i], Max(GoodUpTo(children[i], cf_last.frame)))

\* C13, amended: the anchor is the head anchor of the most recent frame up to k
\* in which the pose data gives one with sufficient confidence; when no frame up
\* to k gives one, it is the anchor of the first later frame that does
\* (seek_first_face).  It is always taken from the pose data.
C13_CarriedAnchors ==
    cf_last.frame >= 0 =>
        \A i \in 1..2 :
            /\ cf_last.skeleton_anchors[i].id = children[i]
            /\ cf_last.skeleton_anchors[i].anchor =
                  IF GoodUpTo(children[i], cf_last.frame) # {}
                  THEN AnchorOf(children[i], Max(GoodUpTo(children[i], cf_last.frame)))
                  ELSE seek_first_face(skeleton_data, children[i]).keypoint

\* match_faces was called at a frame k in which the pose data gives the left child
\* no head anchor and the right child a new one, with the left child's anchor of
\* an earlier frame
C13_Witness ==
    /\ cf_last.frame >= 1
    /\ cf_last.called
    /\ ~maybe_skelly_facepos(skeleton_data, cf_last.frame, children[1]).found
    /\ maybe_skelly_facepos(skeleton_data, cf_last.frame, children[2]).found
    /\ GoodUpTo(children[1], cf_last.frame - 1) # {}
    /\ cf_last.skeleton_anchors[1].anchor = AnchorOf(children[1], cf_last.frame - 1)

\* match_faces was called at a frame k with an anchor taken from a later frame
C13_WitnessLater ==
    /\ cf_last.frame >= 0
    /\ cf_last.called
    /\ GoodUpTo(children[1], cf_last.frame) = {}
    /\ cf_last.skeleton_anchors[1].anchor.x = 300

\* the current skeletons match_keypoints leaves with the identity of a previous
\* one: none when the call is ended by the ZeroDivisionError, which is raised
\* before any identity is copied
MatchedCurrent(out) ==
    IF out.raised THEN {} ELSE {n \in 1..Len(out.ids) : out.ids[n] # None}

\* C14: whatever the costs, match_keypoints and match_faces match exactly
\* min(P, C) pairs; with 2 previous entries and 3 current detections two of the
\* current detections are matched and the third is left unmatched.
C14_MatchesMinPairs ==
    m_out # <<>> =>
        IF m_kind = "keypoints"
        THEN Cardinality(MatchedCurrent(m_out[1])) = Min2(Len(m_previous), Len(m_current))
        ELSE Cardinality(DOMAIN m_out[1].output) = Min2(Len(m_previous), Len(m_current))

\* what holds: every call of match_faces, and every call of match_keypoints that
\* is not ended by the ZeroDivisionError, matches min(P, C) pairs, each current
\* detection at most once
CompletedMatchesMinPairs ==
    m_out # <<>> =>
        IF m_kind = "keypoints"
        THEN ~m_out[1].raised =>
                Cardinality(MatchedCurrent(m_out[1])) = Min2(Len(m_previous), Len(m_current))
        ELSE /\ Cardinality(DOMAIN m_out[1].output) = Min2(Len(m_previous), Len(m_current))
             /\ Cardinality({m_out[1].output[s] : s \in DOMAIN m_out[1].output}) =
                   Min2(Len(m_previous), Len(m_current))

\* match_keypoints was ended by the ZeroDivisionError on 2 previous and 3 current
\* skeletons
RaisedOnTwoAgainstThree ==
    /\ m_kind = "keypoints" /\ m_out # <<>>
    /\ Len(m_previous) = 2 /\ Len(m_current) = 3
    /\ m_out[1].raised

\* match_keypoints returned on 2 previous and 3 current skeletons
ReturnedOnTwoAgainstThree ==
    /\ m_kind = "keypoints" /\ m_out # <<>>
    /\ Len(m_previous) = 2 /\ Len(m_current) = 3
    /\ ~m_out[1].raised
    /\ Cardinality({n \in 1..3 : m_out[1].ids[n] = None}) = 1

\* the tuples match_keypoints enumerates, and their total costs as it sums them
Enumerated == permutations(new_indices(Len(m_previous), Len(m_current)), Len(m_previous))
TotalCosts ==
    LET perms  == Enumerated
        lookup == rmse_lookup(m_previous, m_current)
    IN [i \in 1..Len(perms) |-> permutation_cost(lookup, perms[i], Len(m_previous))]

\* match_keypoints ran on two non-empty sides with at least two tuples to compare
Comparable ==
    /\ m_kind = "keypoints" /\ m_out # <<>>
    /\ Len(m_previous) > 0 /\ Len(m_current) > 0
    /\ Len(Enumerated) >= 2

\* score is second / best, best being the smallest total of the enumerated tuples
\* and second the smallest total of the other tuples; it is at least 1, and is 1
\* when two tuples tie for the minimum
RatioOfTwoSmallest(score) ==
    /\ score.kind = "value"
    /\ \E i \in 1..Len(Enumerated) :
          /\ score.best = TotalCosts[i]
          /\ \A j \in 1..Len(Enumerated) : FLeq(TotalCosts[i], TotalCosts[j])
          /\ \E k \in 1..Len(Enumerated) \ {i} :
                /\ score.second = TotalCosts[k]
                /\ \A j \in 1..Len(Enumerated) \ {i} : FLeq(TotalCosts[k], TotalCosts[j])
    /\ FLeq(score.best, score.second)
    /\ (\E i, j \in 1..Len(Enumerated) :
           /\ i # j /\ TotalCosts[i] = TotalCosts[j]
           /\ \A k \in 1..Len(Enumerated) : FLeq(TotalCosts[i], TotalCosts[k]))
       => score.second = score.best

\* C15: when previous and current are both non-empty and at least two candidate
\* assignments exist, match_keypoints completes and returns (second-smallest
\* total cost of the enumerated assignments) / (smallest total cost); the value
\* is at least 1, and exactly 1 when two assignments tie for the minimum.
C15_Salience ==
    Comparable => RatioOfTwoSmallest(m_out[1].score)

\* what holds: the same whenever the smallest total cost is not 0.0, and a
\* ZeroDivisionError when it is
SalienceUnlessZero ==
    Comparable =>
        IF \E i \in 1..Len(Enumerated) : TotalCosts[i] = FZero
        THEN m_out[1].score.kind = "raised" /\ m_out[1].raised
        ELSE RatioOfTwoSmallest(m_out[1].score)

\* a call with two tuples tied for a minimum above 0.0
TiedMinimum ==
    /\ Comparable
    /\ m_out[1].score.kind = "value"
    /\ m_out[1].score.second = m_out[1].score.best
    /\ Len(m_previous) = 2 /\ Len(m_current) = 2

\* a call with a best total above 0.0 and a larger second total
ClearMinimum ==
    /\ Comparable
    /\ m_out[1].score.kind = "value"
    /\ FLess(m_out[1].score.best, m_out[1].score.second)
    /\ ~m_out[1].score.second.inf

\* C16: match_keypoints reports the salience as NaN whenever there is nothing to
\* compare: when previous is empty, when current is empty, and when only one
\* assignment exists (one previous and one current detection).
C16_UndefinedSalience ==
    (m_kind = "keypoints" /\ m_out # <<>>) =>
        ((\/ Len(m_previous) = 0
          \/ Len(m_current) = 0
          \/ Len(m_previous) = 1 /\ Len(m_current) = 1)
            => m_out[1].score.kind = "nan")

\* what holds: NaN when a side is empty; with one previous and one current
\* skeleton the score is inf / best, which is inf, or a ZeroDivisionError when the
\* two skeletons coincide
SalienceOfSingleAssignment ==
    (m_kind = "keypoints" /\ m_out # <<>>) =>
        /\ (Len(m_previous) = 0 \/ Len(m_current) = 0) => m_out[1].score.kind = "nan"
        /\ (Len(m_previous) = 1 /\ Len(m_current) = 1) =>
              \/ m_out[1].score.kind = "raised"
              \/ /\ m_out[1].score.kind = "value"
                 /\ m_out[1].score.second.inf
                 /\ ~m_out[1].score.best.inf

\* one previous against one current skeleton, the score being infinite
InfiniteSalience ==
    /\ m_kind = "keypoints" /\ m_out # <<>>
    /\ Len(m_previous) = 1 /\ Len(m_current) = 1
    /\ m_out[1].score.kind = "value" /\ m_out[1].score.second.inf

\* the tuples match_faces enumerates, and their total errors
EnumeratedFaces == permutations(face_indices(Len(m_previous), Len(m_current)), Len(m_previous))
TotalErrors ==
    LET perms  == EnumeratedFaces
        lookup == error_lookup(m_previous, m_current, m_weight)
    IN [i \in 1..Len(perms) |-> permutation_error(lookup, perms[i], Len(m_previous))]

\* the first position of an enumeration whose total is the least
FirstMinimum(costs) ==
    Min({i \in DOMAIN costs : \A j \in DOMAIN costs : FLeq(costs[i], costs[j])})
FirstMinimumFaces(errors) ==
    Min({i \in DOMAIN errors : \A j \in DOMAIN errors : errors[i] <= errors[j]})

\* C17: when several assignments reach the same minimal total cost,
\* match_keypoints and match_faces select the one that comes first in the order
\* of itertools.permutations over the current-side indices, and the mapping
\* they produce is the one of that assignment.
C17_FirstMinimumSelected ==
    (m_out # <<>> /\ m_out[1].ran) =>
        IF m_kind = "keypoints"
        THEN \A first \in {Enumerated[FirstMinimum(TotalCosts)]} :
                /\ m_out[1].loop.best_permutation = first
                /\ m_out[1].ids = [n \in 1..Len(m_current) |->
                                      copied_id(m_previous, m_current, first, n)]
        ELSE \A first \in {EnumeratedFaces[FirstMinimumFaces(TotalErrors)]} :
                /\ m_out[1].loop.best_permutation = first
                /\ m_out[1].output = face_output(m_previous, m_current, first)

\* match_keypoints returned after two different assignments tied for the minimum
C17_Witness ==
    /\ m_kind = "keypoints" /\ m_out # <<>> /\ m_out[1].ran /\ ~m_out[1].raised
    /\ \E costs \in {TotalCosts} : \E perms \in {Enumerated} :
          \E j \in 1..Len(perms) :
             /\ j > FirstMinimum(costs)
             /\ costs[j] = costs[FirstMinimum(costs)]
             /\ perms[j] # perms[FirstMinimum(costs)]
             /\ \E n \in 1..Len(m_current) :
                   copied_id(m_previous, m_current, perms[j], n) # m_out[1].ids[n]

\* match_faces returned after two different assignments tied for the minimum
C17_WitnessFaces ==
    /\ m_kind = "faces" /\ m_out # <<>> /\ m_out[1].ran
    /\ \E errors \in {TotalErrors} : \E perms \in {EnumeratedFaces} :
          \E j \in 1..Len(perms) :
             /\ j > FirstMinimumFaces(errors)
             /\ errors[j] = errors[FirstMinimumFaces(errors)]
             /\ face_output(m_previous, m_current, perms[j]) # m_out[1].output

\* the seating-order precondition is violated by table d: no frame has two
\* detections, or at the first frame that has, the leftmost and the rightmost
\* identity coincide, the leftmost x is not strictly smaller than the rightmost,
\* or one of the two anchors has confidence 0
SeatingViolated(d) ==
    LET multi == {f \in frames_of(d) : Cardinality(DOMAIN d[f + 1]) > 1}
    IN \/ multi = {}
       \/ LET people == d[Min(multi) + 1]
              cm     == [id \in DOMAIN people |-> get_center_of_mass(people[id])]
              \* an id no other id stands left of, resp. right of
              lefts  == {a \in DOMAIN people : \A b \in DOMAIN people : ~XLess(cm[b], cm[a])}
              rights == {a \in DOMAIN people : \A b \in DOMAIN people : ~XLess(cm[a], cm[b])}
          IN \/ lefts \cap rights # {}
             \/ \E a \in lefts, b \in rights :
                   \/ ~XLess(cm[a], cm[b])
                   \/ cm[a].sum_confidence = 0
                   \/ cm[b].sum_confidence = 0

\* C18: when the seating-order precondition is violated, get_first_ordered_pair
\* fails; the failure ends the processing of that entry only: no table is
\* written for it, one failure record is appended for it, and the loop is back at
\* its head, where the next entry is begun.
C18_SeatingViolation ==
    [][/\ (cp_pc = "start" /\ SeatingViolated(data)) =>
              /\ cp_pc' = "failed" /\ cp_error' = "AssertionError"
              /\ UNCHANGED <<entry, video_logger, out_csv>>
       /\ cp_pc = "failed" =>
              /\ video_logger'.failed_vids = Append(video_logger.failed_vids, <<entry, cp_error>>)
              /\ cp_pc' = "main"
              /\ UNCHANGED <<entry, out_csv>>
       /\ (cp_pc = "main" /\ entry < MaxEntries) =>
              /\ cp_pc' = "start" /\ entry' = entry + 1
              /\ UNCHANGED <<video_logger, out_csv>>]_vars

\* the first entry violated the precondition in a frame with two detections and
\* was recorded as failed, and the table of the second entry was written
C18_Witness ==
    /\ entry = 2
    /\ video_logger.failed_vids = << <<1, "AssertionError">> >>
    /\ out_csv = {2}
    /\ cp_pc = "written"

\* get_first_ordered_pair has just failed on a table that has a frame with two
\* detections
C18_WitnessFailed ==
    /\ cp_pc = "failed" /\ entry = 1
    /\ SeatingViolated(data)
    /\ \E f \in frames_of(data) : Cardinality(DOMAIN data[f + 1]) > 1
    /\ output = zero_output(Max(frames_of(data)))

\* the failure log holds the same records in memory and in the CSV, at most one
\* per entry, and only for entries begun
LogConsistent ==
    /\ video_logger.csv = video_logger.failed_vids
    /\ \A i, j \in 1..Len(video_logger.failed_vids) :
          video_logger.failed_vids[i][1] = video_logger.failed_vids[j][1] => i = j
    /\ \A i \in 1..Len(video_logger.failed_vids) : video_logger.failed_vids[i][1] \in 1..entry

\* the steps of the loop: an exception is followed by one record (entry, reason)
\* and by the head of the loop; no other step adds a record; the head of the
\* loop is followed by the next entry
LoopGoesOn ==
    /\ cp_pc = "failed" =>
          /\ video_logger' = add_failed(video_logger, entry, cp_error)
          /\ cp_pc' = "main" /\ entry' = entry
    /\ cp_pc # "failed" => video_logger' = video_logger
    /\ (cp_pc = "main" /\ entry < MaxEntries) => (cp_pc' = "start" /\ entry' = entry + 1)

\* C19: an exception raised while one video is processed never stops the batch:
\* the video gets exactly one failure record (video, reason), in memory and in the
\* CSV, and the loop proceeds to the next video; a video processed without error
\* gets no record.
C19_BatchIsolation ==
    /\ [](/\ LogConsistent
          /\ cp_pc = "main" =>
                \A e \in (1..entry) \ out_csv :
                    \E i \in 1..Len(video_logger.csv) : video_logger.csv[i][1] = e)
    /\ [][LoopGoesOn]_vars

\* the first entry raised and has its record, the second was processed to the end
\* without one
C19_Witness ==
    /\ entry = 2 /\ cp_pc = "main"
    /\ Len(video_logger.failed_vids) = 1
    /\ video_logger.failed_vids[1][1] = 1
    /\ video_logger.csv = video_logger.failed_vids
    /\ 2 \in out_csv

\* C20: whenever a failure record is written for a video, no output table of
\* that run is left behind for that video.
C20_NoOutputForFailed ==
    \A i \in 1..Len(video_logger.csv) : video_logger.csv[i][1] \notin out_csv

\* what holds: an entry that failed inside process_file leaves no table; an
\* entry has both a table and a record exactly when its visualization failed,
\* which comes after processed.to_csv in the same `try`
TableLeftOnlyByVisualize ==
    [][/\ (cp_pc = "failed" /\ entry \in out_csv) =>
              (cp_error = "AssertionError" /\ output # <<>>)
       /\ (cp_pc \in {"start", "loop"}) => (entry \notin out_csv /\ entry \notin out_csv')
       /\ (entry \in out_csv' /\ entry \notin out_csv) => (cp_pc = "done" /\ cp_pc' = "written")
       /\ cp_pc' = "failed" => (cp_pc \in {"start", "loop", "written"})]_vars

\* a failure record and a written table for the same entry
TableAndRecord ==
    /\ entry = 1 /\ cp_pc = "main"
    /\ out_csv = {1}
    /\ video_logger.csv = << <<1, "AssertionError">> >>

-----------------------------------------------------------------------------
(* Input validation of the tracker (extract-pose.py consume_file) *)

\* main's except clause has just logged an AssertionError for the current video
RejectedByAssert ==
    /\ pc = "loop" /\ pc' = "main"
    /\ failed_vids' = Append(failed_vids, <<vid, "AssertionError">>)

\* no frame of the current video has been matched or given identities
NothingTrackedYet == file_idx = 0 /\ last = NoLast

\* C21: a malformed detection record in any frame of a video is rejected before
\* any matching or identity allocation has been performed for that video.
C21_FailFast == [][RejectedByAssert => NothingTrackedYet]_vars

-----------------------------------------------------------------------------
(* Size of the matcher's inputs (consolidate-face.py process_faces) *)

\* C22: the matcher is never run on more simultaneous detections than a small fixed
\* bound (at most 4): a frame with more detections is rejected by the caller before
\* match_faces is invoked, it is not enumerated.
C22_MatcherSizeBound ==
    cf_last.called =>
        /\ Len(cf_last.skeleton_anchors) <= 4
        /\ Len(cf_last.face_anchors) <= 4

-----------------------------------------------------------------------------
(* get_rmse (local/pose.py), as match_keypoints tabulates it *)

\* the joints whose confidence reaches MIN_CONFIDENCE in both skeletons
JointlyEligible(first, second) ==
    {j \in JointSet : /\ first.joints[j].confidence >= MIN_CONFIDENCE
                      /\ second.joints[j].confidence >= MIN_CONFIDENCE}

\* the squared distances of two skeletons, summed over the joints in S
SquaredDistance(first, second, S) ==
    SumSet(S, [j \in JointSet |->
                 (first.joints[j].x - second.joints[j].x) * (first.joints[j].x - second.joints[j].x)
               + (first.joints[j].y - second.joints[j].y) * (first.joints[j].y - second.joints[j].y)])

\* r, in tenths of a pixel and rounded down, is the root of total / count
IsRootOfMean(r, total, count) ==
    /\ ~r.inf /\ r.bad = 0
    /\ r.fin * r.fin * count <= 100 * total
    /\ 100 * total < (r.fin + 1) * (r.fin + 1) * count

\* the value tabulated for a pair is the one the claim describes
RmseAsSpecified(r, first, second) ==
    \A shared \in {JointlyEligible(first, second)} :
       IF shared = {}
       THEN r = [inf |-> FALSE, bad |-> 1, fin |-> 0]
       ELSE IsRootOfMean(r, SquaredDistance(first, second, shared), Cardinality(shared))

\* C23: for two skeletons that share no joint eligible on both sides get_rmse
\* returns exactly the finite sentinel 1e30 (no NaN, no infinity, no exception); in
\* every other case the square root of the mean squared distance over the jointly
\* eligible joints.
C23_RmseSentinel ==
    (m_kind = "keypoints" /\ m_out # <<>> /\ m_out[1].ran) =>
        /\ DOMAIN m_out[1].lookup = 1..Len(m_previous)
        /\ \A i \in 1..Len(m_previous) :
              /\ DOMAIN m_out[1].lookup[i] = 1..Len(m_current)
              /\ \A n \in 1..Len(m_current) :
                    RmseAsSpecified(m_out[1].lookup[i][n], m_previous[i], m_current[n])

\* a table holding the sentinel, a root over one joint and a root over two joints
C23_Witness ==
    /\ m_kind = "keypoints" /\ m_out # <<>> /\ m_out[1].ran
    /\ \E i \in 1..Len(m_previous), n \in 1..Len(m_current) :
          /\ JointlyEligible(m_previous[i], m_current[n]) = {}
          /\ m_out[1].lookup[i][n] = BAD_MATCH_RMSE
    /\ \E i \in 1..Len(m_previous), n \in 1..Len(m_current) :
          /\ Cardinality(JointlyEligible(m_previous[i], m_current[n])) = 1
          /\ m_out[1].lookup[i][n].fin = 4000
    /\ \E i \in 1..Len(m_previous), n \in 1..Len(m_current) :
          /\ Cardinality(JointlyEligible(m_previous[i], m_current[n])) = 2
          /\ m_previous[i].joints["nose"].confidence = MIN_CONFIDENCE
          /\ m_out[1].lookup[i][n].fin = 3535

-----------------------------------------------------------------------------
(* get_error (consolidate-face.py), as match_faces tabulates it *)

\* the squared distance of two anchors
AnchorDistance2(a, b) == (a.x - b.x) * (a.x - b.x) + (a.y - b.y) * (a.y - b.y)

\* match_faces has tabulated the costs of the drawn anchors
FacesTabulated == m_kind = "faces" /\ m_out # <<>> /\ m_out[1].ran

\* of two faces of equal confidence the one farther from the anchor costs more
GrowsWithDistance ==
    \A s \in 1..Len(m_previous) : \A f, g \in 1..Len(m_current) :
       (/\ m_current[f].anchor.confidence = m_current[g].anchor.confidence
        /\ AnchorDistance2(m_previous[s].anchor, m_current[f].anchor)
              < AnchorDistance2(m_previous[s].anchor, m_current[g].anchor))
       => m_out[1].lookup[s][f] < m_out[1].lookup[s][g]

\* of two faces at equal distance from the anchor the more confident one costs less
FallsWithConfidence ==
    \A s \in 1..Len(m_previous) : \A f, g \in 1..Len(m_current) :
       (/\ AnchorDistance2(m_previous[s].anchor, m_current[f].anchor)
              = AnchorDistance2(m_previous[s].anchor, m_current[g].anchor)
        /\ m_current[f].anchor.confidence < m_current[g].anchor.confidence)
       => m_out[1].lookup[s][f] > m_out[1].lookup[s][g]

\* of two faces at equal distance from the anchor, both cost the same
BlindToConfidence ==
    \A s \in 1..Len(m_previous) : \A f, g \in 1..Len(m_current) :
       AnchorDistance2(m_previous[s].anchor, m_current[f].anchor)
           = AnchorDistance2(m_previous[s].anchor, m_current[g].anchor)
       => m_out[1].lookup[s][f] = m_out[1].lookup[s][g]

\* C24 as stated: for every weight process_faces can pass, a larger distance at
\* equal face confidence gives a strictly larger cost, and a larger face confidence
\* at equal distance a strictly smaller cost.
C24_Original == FacesTabulated => GrowsWithDistance /\ FallsWithConfidence

\* C24: a larger distance at equal face confidence gives a strictly larger cost for
\* every weight; a larger face confidence at equal distance gives a strictly smaller
\* cost for every positive weight, and the same cost when the weight is 0.
C24_CostMonotone ==
    FacesTabulated =>
        /\ GrowsWithDistance
        /\ m_weight > 0 => FallsWithConfidence
        /\ m_weight = 0 => BlindToConfidence

\* a positive weight, with two faces that differ in distance only and two that
\* differ in confidence only
C24_Witness ==
    /\ FacesTabulated /\ m_weight > 0
    /\ \E s \in 1..Len(m_previous) : \E f, g \in 1..Len(m_current) :
          /\ m_current[f].anchor.confidence = m_current[g].anchor.confidence
          /\ AnchorDistance2(m_previous[s].anchor, m_current[f].anchor)
                < AnchorDistance2(m_previous[s].anchor, m_current[g].anchor)
    /\ \E s \in 1..Len(m_previous) : \E f, g \in 1..Len(m_current) :
          /\ AnchorDistance2(m_previous[s].anchor, m_current[f].anchor)
                = AnchorDistance2(m_previous[s].anchor, m_current[g].anchor)
          /\ m_current[f].anchor.confidence < m_current[g].anchor.confidence
          /\ m_out[1].lookup[s][f] = m_out[1].lookup[s][g] + 50 * m_weight

\* the weight is 0 and two faces differ in confidence only
C24_WitnessZero ==
    /\ FacesTabulated /\ m_weight = 0
    /\ \E s \in 1..Len(m_previous) : \E f, g \in 1..Len(m_current) :
          /\ AnchorDistance2(m_previous[s].anchor, m_current[f].anchor)
                = AnchorDistance2(m_previous[s].anchor, m_current[g].anchor)
          /\ m_current[f].anchor.confidence < m_current[g].anchor.confidence

-----------------------------------------------------------------------------
(* Roles and identities in process_file (consolidate-pose.py) *)

\* C25: after every frame processed by process_file the known-identity sets of the
\* two roles are disjoint; within one frame no role receives two detections and no
\* detection is written under two roles.
C25_RolesOneToOne ==
    leftmost_id # None =>
        /\ id_map.left \cap id_map.right = {}
        /\ Cardinality(assigned.left) <= 1
        /\ Cardinality(assigned.right) <= 1
        /\ assigned.left \cap assigned.right = {}

\* a frame after the first has been processed, and each role was written from its
\* own detection
C25_Witness ==
    /\ cp_pc \in {"loop", "done"} /\ cp_frame >= 1
    /\ assigned.left = {leftmost_id}
    /\ assigned.right = {rightmost_id}
    /\ leftmost_id # rightmost_id
    /\ output[<<0, "left">>] # ZeroRows

-----------------------------------------------------------------------------
(* Role seeding in process_faces (consolidate-face.py) *)

\* the frames of the consolidated pose table in which both children have rows
\* that are not the all-zero rows of an unresolved role
BothDetected ==
    {f \in frames_of(skeleton_data) :
        /\ DOMAIN skeleton_data[f + 1] = ChildIds
        /\ \A id \in ChildIds : skeleton_data[f + 1][id] # ZeroRows}

\* C26: process_faces derives the roles from the first frame of the consolidated
\* pose table in which both children have a successful pose detection; frames in
\* which a role is present only as an all-zero row are skipped in the search and do
\* not make the video fail.
C26_RoleSeeding ==
    (cf_pc # "start" /\ BothDetected # {}) =>
        /\ cf_error # "AssertionError"
        /\ cf_error = "" =>
              \E pair \in {ordered_pair_at(skeleton_data, Min(BothDetected))} :
                 children = <<pair.leftmost_id, pair.rightmost_id>>

-----------------------------------------------------------------------------
(* Identities within one frame (extract-pose.py) *)

\* C27: in every frame, after match_keypoints and IdBuffer.update have run, every
\* skeleton carries a non-null identity and no two skeletons of the frame carry the
\* same identity: neither the matcher nor the flicker relabel duplicates one.
C27_DistinctIdentities ==
    (pc = "loop" /\ file_idx >= 1) =>
        /\ \A n \in 1..Len(last.ids) : last.ids[n] # None
        /\ \A n, k \in 1..Len(last.ids) : last.ids[n] = last.ids[k] => n = k
        /\ \A n \in 1..Len(skeletons) : skeletons[n].id # None
        /\ \A n, k \in 1..Len(skeletons) : skeletons[n].id = skeletons[k].id => n = k

\* a frame of two skeletons in which IdBuffer.update has relabelled one
C27_Witness ==
    /\ pc = "loop" /\ file_idx >= 2
    /\ Len(skeletons) = 2
    /\ last.ran
    /\ \E n \in 1..2 : skeletons[n].id # last.ids[n]
    /\ skeletons[1].id # skeletons[2].id

-----------------------------------------------------------------------------
(* The tracker's table as process_file meets it *)

\* the persistent identities of frame f of the tracker's table
FrameIds(f) == DOMAIN data[f + 1]

\* the frames of the table that hold two identities; the first one seeds the roles
PairFrames == {f \in frames_of(data) : Cardinality(FrameIds(f)) = 2}

\* the identities of a frame are all seed identities, or none of them is
SubsetOrDisjoint(ids, seed) == ids \subseteq seed \/ ids \cap seed = {}

\* C28: with at most two detections per frame, the identities of every frame of
\* the tracker's output are a subset of the seed pair {leftmost_id, rightmost_id}
\* or disjoint from it, and the branch of process_file for exactly one pending
\* role and exactly one pending identity is never reached.
C28_NoMixedFrame ==
    /\ cp_error # "TypeError"
    /\ PairFrames # {} =>
          \A seed \in {FrameIds(Min(PairFrames))} :
             /\ leftmost_id # None => {leftmost_id, rightmost_id} = seed
             /\ \A f \in frames_of(data) : SubsetOrDisjoint(FrameIds(f), seed)

\* process_file has gone through a table in which the seed pair is seen again after
\* the seeding frame and a later frame holds other identities only
C28_Witness ==
    /\ cp_pc = "done" /\ leftmost_id # None
    /\ \E f, g \in frames_of(data) :
          /\ Min(PairFrames) < f /\ f < g
          /\ FrameIds(f) = {leftmost_id, rightmost_id}
          /\ FrameIds(g) \cap {leftmost_id, rightmost_id} = {}

\* the frames after the seeding frame that hold an identity outside the seed pair
StrangerFrames ==
    IF PairFrames = {} THEN {}
    ELSE {f \in frames_of(data) :
             /\ f > Min(PairFrames)
             /\ ~(FrameIds(f) \subseteq FrameIds(Min(PairFrames)))}

\* every role row of frame g that the output holds is all-zero
Unresolved(g) ==
    \A role \in Range(Roles) : <<g, role>> \in DOMAIN output => output[<<g, role>>] = ZeroRows

-----------------------------------------------------------------------------
(* The anchors process_faces hands to match_faces (consolidate-face.py) *)

\* the head joints of child id seen with confidence above MIN_CONFIDENCE in frame f
ConfidentHead(f, id) ==
    IF f + 1 \in DOMAIN skeleton_data /\ id \in DOMAIN skeleton_data[f + 1]
    THEN {j \in Range(POSE_HEAD_POINTS) : skeleton_data[f + 1][id][j].confidence > MIN_CONFIDENCE}
    ELSE {}

\* child id has all-zero rows in frame f
ZeroRowAt(f, id) ==
    /\ f + 1 \in DOMAIN skeleton_data
    /\ id \in DOMAIN skeleton_data[f + 1]
    /\ skeleton_data[f + 1][id] = ZeroRows

\* keypoint is the mean position of the confident head joints of child id in frame f
ComputedFrom(keypoint, f, id) ==
    \E head \in {ConfidentHead(f, id)} :
       /\ head # {}
       /\ keypoint.x * Cardinality(head)
             = SumSet(head, [j \in JointSet |-> skeleton_data[f + 1][id][j].x])
       /\ keypoint.y * Cardinality(head)
             = SumSet(head, [j \in JointSet |-> skeleton_data[f + 1][id][j].y])

\* every anchor handed to match_faces is above MIN_CONFIDENCE and is the head
\* position of its child in some frame of the table
AnchorsAreHeads ==
    cf_last.called =>
        \A i \in 1..Len(cf_last.skeleton_anchors) :
           /\ cf_last.skeleton_anchors[i].anchor.confidence > MIN_CONFIDENCE
           /\ \E f \in frames_of(skeleton_data) :
                 ComputedFrom(cf_last.skeleton_anchors[i].anchor, f, cf_last.skeleton_anchors[i].id)

\* a child without a confident head joint in any frame fails the video before any
\* matching; seek_first_face raises only for a child without an anchor
HeadlessChildFails ==
    /\ (cf_pc # "start" /\ \E id \in ChildIds :
                              \A f \in frames_of(skeleton_data) : ConfidentHead(f, id) = {})
          => (cf_pc = "failed" /\ cf_last = NoLastFace)
    /\ cf_error = "Exception"
          => (/\ cf_pc = "failed" /\ cf_last = NoLastFace
              /\ \E id \in ChildIds : \A f \in frames_of(skeleton_data) :
                    ~ \E keypoint \in {get_skelly_facepos(skeleton_data[f + 1][id])} :
                         keypoint.confidence > MIN_CONFIDENCE)

\* a loop iteration on a frame in which a child has all-zero rows keeps the child's
\* anchor
ZeroRowKeepsAnchor ==
    (cf_pc = "loop" /\ cf_last' # cf_last) =>
        \A i \in 1..Len(children) :
           ZeroRowAt(cf_frame, children[i]) => cf_anchor'[i] = cf_anchor[i]

\* C30: the anchor passed to match_faces for each role has confidence above
\* MIN_CONFIDENCE and was computed from a frame in which the role had a head joint
\* above MIN_CONFIDENCE; an all-zero pose row never replaces the carried anchor;
\* a role without such a frame fails the video instead of being matched against a
\* zero anchor.
C30_NoSentinelAnchor ==
    [](AnchorsAreHeads /\ HeadlessChildFails) /\ [][ZeroRowKeepsAnchor]_vars

\* match_faces was called on a frame in which the second child has all-zero rows,
\* with the anchor of an earlier frame
C30_Witness ==
    /\ cf_last.called /\ cf_last.frame >= 1
    /\ ZeroRowAt(cf_last.frame, children[2])
    /\ cf_last.skeleton_anchors[2].anchor = Keypoint(500, 0, 40)

\* a child seen by its neck only: seek_first_face has failed the video
C30_WitnessFailed ==
    /\ cf_pc = "failed" /\ cf_error = "Exception"
    /\ \A f \in frames_of(skeleton_data) : ConfidentHead(f, 1) = {}

=============================================================================
